---- MODULE Spec2Model ----
(***************************************************************************)
(* Effect inference of the tntc/quint toolchain.                           *)
(*                                                                         *)
(* The module models EffectInferrerVisitor (the inference orchestrator)    *)
(* as a state machine with one action per visitor callback, driven by the  *)
(* depth-first walk of a module tree, together with the effect algebra it  *)
(* relies on (substitutions and unification).                              *)
(***************************************************************************)
EXTENDS Integers, Sequences, FiniteSets, TLC

(***************************************************************************)
(* Either-style results                                                    *)
(***************************************************************************)
right(v) == [ok |-> TRUE, val |-> v]

left(e) == [ok |-> FALSE, err |-> e]

(***************************************************************************)
(* Effect model                                                            *)
(***************************************************************************)
ConcreteVars(s) == [kind |-> "concrete", vars |-> s]

emptyVariables == ConcreteVars({})

Quantified(n) == [kind |-> "quantified", name |-> n]

Concrete(r, u, t) == [kind |-> "concrete", read |-> r, update |-> u, temporal |-> t]

Arrow(ps, res) == [kind |-> "arrow", params |-> ps, result |-> res]

emptyFootprint == Concrete(emptyVariables, emptyVariables, emptyVariables)

Binding(k, n, v) == [kind |-> k, name |-> n, value |-> v]

\* Sequence helpers
Range(s) == {s[i] : i \in DOMAIN s}

RECURSIVE FlattenSeq(_)
FlattenSeq(ss) == IF ss = <<>> THEN <<>> ELSE Head(ss) \o FlattenSeq(Tail(ss))

\* keeps the first occurrence of every element
RECURSIVE Dedup(_)
Dedup(s) ==
  IF s = <<>> THEN <<>>
  ELSE LET init == Dedup(SubSeq(s, 1, Len(s) - 1))
           last == s[Len(s)]
       IN  IF last \in Range(init) THEN init ELSE Append(init, last)

variablesNames(v) ==
  IF v.kind = "quantified" THEN << [kind |-> "variable", name |-> v.name] >> ELSE <<>>

\* every quantified name reachable inside an effect, with its kind, in order
\* of first occurrence
RECURSIVE effectNamesAll(_)
effectNamesAll(e) ==
  CASE e.kind = "quantified" -> << [kind |-> "effect", name |-> e.name] >>
    [] e.kind = "concrete" ->
         variablesNames(e.read) \o variablesNames(e.update) \o variablesNames(e.temporal)
    [] e.kind = "arrow" ->
         FlattenSeq([i \in DOMAIN e.params |-> effectNamesAll(e.params[i])])
           \o effectNamesAll(e.result)

effectNames(e) == Dedup(effectNamesAll(e))

NamesIn(e) == {n.name : n \in Range(effectNamesAll(e))}

(***************************************************************************)
(* Substitution engine                                                     *)
(***************************************************************************)
SubsKeys(subs) == {subs[i].name : i \in DOMAIN subs}

\* the first binding for a name
FindSub(subs, n) ==
  LET idx == {i \in DOMAIN subs : subs[i].name = n}
  IN  subs[CHOOSE i \in idx : \A j \in idx : i <= j]

applySubstitutionToVariables(subs, v) ==
  IF v.kind = "quantified" /\ v.name \in SubsKeys(subs)
  THEN LET b == FindSub(subs, v.name)
       IN  IF b.kind = "variable" THEN right(b.value)
           ELSE left("kind mismatch")
  ELSE right(v)

RECURSIVE applySubstitution(_, _)
applySubstitution(subs, e) ==
  CASE e.kind = "quantified" ->
         IF e.name \in SubsKeys(subs)
         THEN LET b == FindSub(subs, e.name)
              IN  IF b.kind = "effect" THEN right(b.value)
                  ELSE left("kind mismatch")
         ELSE right(e)
    [] e.kind = "concrete" ->
         LET r == applySubstitutionToVariables(subs, e.read)
             u == applySubstitutionToVariables(subs, e.update)
             t == applySubstitutionToVariables(subs, e.temporal)
         IN  IF r.ok /\ u.ok /\ t.ok
             THEN right(Concrete(r.val, u.val, t.val))
             ELSE left("kind mismatch")
    [] e.kind = "arrow" ->
         LET ps  == [i \in DOMAIN e.params |-> applySubstitution(subs, e.params[i])]
             res == applySubstitution(subs, e.result)
         IN  IF res.ok /\ \A i \in DOMAIN ps : ps[i].ok
             THEN right(Arrow([i \in DOMAIN ps |-> ps[i].val], res.val))
             ELSE left("kind mismatch")

applySubstitutionToBinding(subs, b) ==
  LET v == IF b.kind = "effect" THEN applySubstitution(subs, b.value)
           ELSE applySubstitutionToVariables(subs, b.value)
  IN  IF v.ok THEN right(Binding(b.kind, b.name, v.val)) ELSE v

\* mutant of compose: only the first existing binding is rewritten
composeRewritingHead(newSubs, existingSubs) ==
  LET rewritten == [i \in DOMAIN existingSubs |->
                      IF i = 1 THEN applySubstitutionToBinding(newSubs, existingSubs[i])
                      ELSE right(existingSubs[i])]
      added     == SelectSeq(newSubs, LAMBDA b : b.name \notin SubsKeys(existingSubs))
  IN  IF \A i \in DOMAIN rewritten : rewritten[i].ok
      THEN right([i \in DOMAIN rewritten |-> rewritten[i].val] \o added)
      ELSE left("kind mismatch")

\* compose(newSubs, existingSubs): newSubs applied to the value of every
\* binding of existingSubs, then the bindings of newSubs whose names are not
\* keys of existingSubs
compose(newSubs, existingSubs) ==
  LET rewritten == [i \in DOMAIN existingSubs |->
                      applySubstitutionToBinding(newSubs, existingSubs[i])]
      added     == SelectSeq(newSubs, LAMBDA b : b.name \notin SubsKeys(existingSubs))
  IN  IF \A i \in DOMAIN rewritten : rewritten[i].ok
      THEN right([i \in DOMAIN rewritten |-> rewritten[i].val] \o added)
      ELSE left("kind mismatch")

(***************************************************************************)
(* Unification engine                                                      *)
(***************************************************************************)
unifyVariables(va, vb) ==
  CASE va.kind = "quantified" -> right(<< Binding("variable", va.name, vb) >>)
    [] vb.kind = "quantified" -> right(<< Binding("variable", vb.name, va) >>)
    [] OTHER -> IF va.vars = vb.vars THEN right(<<>>)
                ELSE left("expected variables are not equal")

\* mutant of bindEffect: no occurs check
bindEffectUnchecked(n, e) == right(<< Binding("effect", n, e) >>)

\* unify(Quantified(n), e) for e other than Quantified(n): n is bound to e
\* unless it occurs in e
bindEffect(n, e) ==
  IF n \in NamesIn(e) THEN left("cyclical binding")
  ELSE right(<< Binding("effect", n, e) >>)

\* one slot of a concrete effect, under the substitution accumulated so far
unifySlot(acc, va, vb) ==
  IF ~acc.ok THEN acc
  ELSE LET a == applySubstitutionToVariables(acc.val, va)
           b == applySubstitutionToVariables(acc.val, vb)
       IN  IF ~(a.ok /\ b.ok) THEN left("kind mismatch")
           ELSE LET s == unifyVariables(a.val, b.val)
                IN  IF s.ok THEN compose(s.val, acc.val) ELSE s

\* mutant of unifyConcrete: every slot is unified on its own
unifyConcreteSlotwise(ea, eb) ==
  LET r == unifyVariables(ea.read, eb.read)
      u == unifyVariables(ea.update, eb.update)
      t == unifyVariables(ea.temporal, eb.temporal)
      ru == IF r.ok /\ u.ok THEN compose(u.val, r.val) ELSE left("variables")
  IN  IF ru.ok /\ t.ok THEN compose(t.val, ru.val) ELSE left("variables")

unifyConcrete(ea, eb) ==
  LET r == unifySlot(right(<<>>), ea.read, eb.read)
      u == unifySlot(r, ea.update, eb.update)
  IN  unifySlot(u, ea.temporal, eb.temporal)

RECURSIVE unify(_, _)
RECURSIVE unifyPairs(_, _, _, _)
\* pairs k..Len(as) of two equally long effect lists, left to right, under
\* the substitution accumulated so far
unifyPairs(acc, as, bs, k) ==
  IF ~acc.ok \/ k > Len(as) THEN acc
  ELSE LET a == applySubstitution(acc.val, as[k])
           b == applySubstitution(acc.val, bs[k])
       IN  IF ~(a.ok /\ b.ok) THEN left("kind mismatch")
           ELSE LET s == unify(a.val, b.val)
                IN  IF s.ok THEN unifyPairs(compose(s.val, acc.val), as, bs, k + 1)
                    ELSE s

unifyArrows(ea, eb) ==
  IF Len(ea.params) # Len(eb.params)
  THEN left("arity mismatch")
  ELSE unifyPairs(right(<<>>), Append(ea.params, ea.result),
                  Append(eb.params, eb.result), 1)

unify(ea, eb) ==
  CASE ea.kind = "quantified" /\ eb.kind = "quantified" /\ ea.name = eb.name ->
         right(<<>>)
    [] ea.kind = "quantified" /\ ~(eb.kind = "quantified" /\ ea.name = eb.name) ->
         bindEffect(ea.name, eb)
    [] ea.kind # "quantified" /\ eb.kind = "quantified" ->
         bindEffect(eb.name, ea)
    [] ea.kind = "concrete" /\ eb.kind = "concrete" -> unifyConcrete(ea, eb)
    [] ea.kind = "arrow" /\ eb.kind = "arrow" -> unifyArrows(ea, eb)
    [] OTHER -> left("can't unify different types of effects")

(***************************************************************************)
(* Program trees.  Every node carries a unique nonzero id; the children of *)
(* the node with id n have ids IdBase * n + k.                             *)
(***************************************************************************)
MaxDefs == 3

\* the number of calls of inferEffects with the same arguments, and the
\* number of definitions of the modules they are made with
MaxCalls == 2

MaxCallDefs == 2

Child(n, k) == 5 * n + k

Lit(i) == [kind |-> "lit", id |-> i]

Name(i, n) == [kind |-> "name", id |-> i, name |-> n]

App(i, op, as) == [kind |-> "app", id |-> i, opcode |-> op, args |-> as]

Lambda(i, ps, body) == [kind |-> "lambda", id |-> i, params |-> ps, expr |-> body]

OpDef(i, n, e) == [kind |-> "def", id |-> i, name |-> n, expr |-> e]

Let(i, d, e) == [kind |-> "let", id |-> i, opdef |-> d, expr |-> e]

ModuleDef(i, m) == [kind |-> "module", id |-> i, module |-> m]

OpName(i) == "f" \o ToString(i)

\* def id(p) = p
IdLambda(e) == Lambda(e, <<"p">>, Name(Child(e, 1), "p"))

\* not(true)
NotLit(e) == App(e, "not", << Lit(Child(e, 1)) >>)

\* op(v) for a state variable v
CallOp(e, op, v) == App(e, op, << Name(Child(e, 1), v) >>)

\* f1(v) for a state variable v
CallF1(e, v) == CallOp(e, "f1", v)

\* not(1, 2): one argument too many
NotTwo(e) == App(e, "not", << Lit(Child(e, 1)), Lit(Child(e, 2)) >>)

\* not(not(1, 2)): the argument is an application that fails
NotOfFailing(e) == App(e, "not", << NotTwo(Child(e, 1)) >>)

\* { val t = x  t }
LetIn(e) ==
  Let(e, OpDef(Child(e, 1), "t", Name(Child(Child(e, 1), 1), "x")),
         Name(Child(e, 2), "t"))

\* (p) => same(same(p, x), p)
SiblingLambda(e) ==
  Lambda(e, <<"p">>,
         App(Child(e, 1), "same",
             << App(Child(Child(e, 1), 1), "same",
                    << Name(Child(Child(Child(e, 1), 1), 1), "p"),
                       Name(Child(Child(Child(e, 1), 1), 2), "x") >>),
                Name(Child(Child(e, 1), 2), "p") >>))

\* the bodies a top-level definition may have; e is the id of the body
ExprPool(e) ==
  << Lit(e),
    Name(e, "x"),
    IdLambda(e),
    CallF1(e, "x"),
    CallF1(e, "y"),
    Name(e, "f1"),
    NotLit(e),
    NotTwo(e),
    LetIn(e),
    App(e, "call", << Lambda(Child(e, 1), <<"q">>,
                             App(Child(Child(e, 1), 1), "not",
                                 << Name(Child(Child(Child(e, 1), 1), 1), "q") >>)),
                      Name(Child(e, 2), "x") >>),
    SiblingLambda(e),
    CallOp(e, "f2", "x"),
    NotOfFailing(e) >>

RootName == "root"

\* modules: the i-th definition has id i and is named OpName(i)
DefsOfLen(n) ==
  { [i \in 1..n |-> OpDef(i, OpName(i), ExprPool(Child(i, 1))[c[i]])] :
      c \in [1..n -> DOMAIN ExprPool(1)] }

ModulesOfLen(n) == { [name |-> RootName, id |-> 0, defs |-> ds] : ds \in DefsOfLen(n) }

(***************************************************************************)
(* Builtin signatures: operator name -> (arity -> effect)                  *)
(***************************************************************************)
ReadOf(n) == Concrete(Quantified(n), emptyVariables, emptyVariables)

BuiltinNames == {"not", "same", "call", "head"}

builtinSignatures(op, arity) ==
  CASE op = "not"  -> Arrow(<< ReadOf("r1") >>, ReadOf("r1"))
    [] op = "same" -> Arrow([i \in 1..arity |-> ReadOf("r1")], ReadOf("r1"))
    [] op = "head" -> Arrow([i \in 1..arity |-> ReadOf("r1")], ReadOf("r1"))
    [] op = "call" -> Arrow(<< Arrow(<< Quantified("e1") >>, Quantified("e2")),
                               Quantified("e1") >>, Quantified("e2"))

(***************************************************************************)
(* Name resolution (external collaborator): the table of a module holds    *)
(* one definition per declared name; scope 0 means unscoped.               *)
(***************************************************************************)
NameDefinition(k, n, ref, sc) ==
  [kind |-> k, identifier |-> n, reference |-> ref, scope |-> sc]

\* binding site of the k-th parameter of the lambda with id l
ParamRef(l, k) == Child(l, 1 + k)

RECURSIVE collectExpr(_)
RECURSIVE collectDef(_, _)
collectExpr(e) ==
  CASE e.kind = "app" -> FlattenSeq([i \in DOMAIN e.args |-> collectExpr(e.args[i])])
    [] e.kind = "lambda" ->
         [k \in DOMAIN e.params |->
            NameDefinition("param", e.params[k], ParamRef(e.id, k), e.id)]
           \o collectExpr(e.expr)
    [] e.kind = "let" -> collectDef(e.opdef, e.id) \o collectExpr(e.expr)
    [] OTHER -> <<>>

collectDef(d, scope) ==
  CASE d.kind = "def" ->
         << NameDefinition("def", d.name, d.id, scope) >> \o collectExpr(d.expr)
    [] d.kind = "module" ->
         << NameDefinition("module", d.module.name, d.id, scope) >>

collectDefinitions(m) ==
  << NameDefinition("def", "not", 0, 0), NameDefinition("def", "same", 0, 0),
     NameDefinition("def", "call", 0, 0), NameDefinition("def", "head", 0, 0),
     NameDefinition("var", "x", 0, 0), NameDefinition("var", "y", 0, 0),
     NameDefinition("const", "c", 0, 0) >>
    \o FlattenSeq([i \in DOMAIN m.defs |-> collectDef(m.defs[i], 0)])

RECURSIVE nestedModules(_)
nestedModules(m) ==
  {m} \cup UNION { nestedModules(m.defs[i].module) :
                     i \in {j \in DOMAIN m.defs : m.defs[j].kind = "module"} }

\* lookup tables by module name
lookupTable(root, name) ==
  collectDefinitions(CHOOSE m \in nestedModules(root) : m.name = name)

\* ids of the scopes that enclose a node, innermost first
RECURSIVE scopesForId(_, _)
scopesForId(tree, i) ==
  IF i = tree \/ i = 0 THEN << i >> ELSE << i >> \o scopesForId(tree, i \div 5)

NoDef == [kind |-> "none", identifier |-> "", reference |-> 0, scope |-> 0]

lookupValue(table, scopeTree, name, scope) ==
  LET visible == SelectSeq(table, LAMBDA d :
                   /\ d.identifier = name
                   /\ (d.scope = 0 \/ d.scope \in Range(scopesForId(scopeTree, scope))))
  IN  IF visible = <<>> THEN NoDef ELSE Head(visible)

(***************************************************************************)
(* The walk: the visitor callbacks in the order walkModule makes them      *)
(***************************************************************************)
Ev(cb, n) == [cb |-> cb, node |-> n]

RECURSIVE walkExpression(_)
RECURSIVE walkDefinition(_)
walkExpression(e) ==
  CASE e.kind = "lit" -> << Ev("exitLiteral", e) >>
    [] e.kind = "name" -> << Ev("exitName", e) >>
    [] e.kind = "app" ->
         FlattenSeq([i \in DOMAIN e.args |-> walkExpression(e.args[i])])
           \o << Ev("exitApp", e) >>
    [] e.kind = "lambda" ->
         << Ev("enterLambda", e) >> \o walkExpression(e.expr) \o << Ev("exitLambda", e) >>
    [] e.kind = "let" ->
         walkDefinition(e.opdef) \o walkExpression(e.expr) \o << Ev("exitLet", e) >>

walkDefinition(d) ==
  CASE d.kind = "def" -> walkExpression(d.expr) \o << Ev("exitOpDef", d) >>
    [] d.kind = "import" -> << Ev("enterImport", d) >>
    [] d.kind = "instance" -> << Ev("enterInstance", d) >>
    [] d.kind = "module" ->
         << Ev("enterModuleDef", d) >>
           \o FlattenSeq([i \in DOMAIN d.module.defs |-> walkDefinition(d.module.defs[i])])
           \o << Ev("exitModuleDef", d) >>

walkModule(m) == walkDefinition(ModuleDef(m.id, m))

(***************************************************************************)
(* EffectInferrerVisitor: run state                                        *)
(***************************************************************************)
VARIABLES
  module,            \* the module under inference (input of inferEffects)
  agenda,            \* the callbacks walkModule has still to make
  effects,           \* node id -> effect
  errors,            \* node id -> error tree
  substitutions,     \* the running substitution
  freshVarCounters,  \* prefix -> next counter
  moduleStack,       \* names of the modules being traversed, innermost last
  currentModule,     \* name of the current module, "" before the first one
  currentTable,      \* the lookup table of the current module
  currentScopeTree,  \* root id of the scope tree of the current module
  status,            \* "running", "returned" or "thrown"
  result,            \* the value inferEffects returns
  issued,            \* every name freshVar has returned, in order
  instances,         \* every signature instantiation, in order
  earlier,           \* what the earlier calls of inferEffects returned
  tables,            \* ImportResolverVisitor.tables: module name -> lookup table
  shared,            \* currentTable is the table object stored in tables
  input,             \* the arguments of a call of the effect algebra
  output             \* what that call returned

vars == << module, agenda, effects, errors, substitutions, freshVarCounters,
           moduleStack, currentModule, currentTable, currentScopeTree,
           status, result, issued, instances, earlier, tables, shared,
           input, output >>

newTable == <<>>

NoResult == [kind |-> "none"]

Put(f, k, v) == [i \in DOMAIN f \cup {k} |-> IF i = k THEN v ELSE f[i]]

EmptyMap == [i \in {} |-> 0]

startsWith(str, prefix) ==
  Len(str) >= Len(prefix) /\ SubSeq(str, 1, Len(prefix)) = prefix

Counter(counters, prefix) ==
  IF prefix \in DOMAIN counters THEN counters[prefix] ELSE 0

\* mutant of freshVar: the counter is stored back without the increment
freshVarSameCounter(counters, prefix) ==
  [name     |-> prefix \o ToString(Counter(counters, prefix)),
   counters |-> Put(counters, prefix, Counter(counters, prefix))]

freshVar(counters, prefix) ==
  [name     |-> prefix \o ToString(Counter(counters, prefix)),
   counters |-> Put(counters, prefix, Counter(counters, prefix) + 1)]

\* n successive calls of freshVar
RECURSIVE freshVars(_, _, _)
freshVars(counters, prefix, n) ==
  IF n = 0 THEN [names |-> <<>>, counters |-> counters]
  ELSE LET before == freshVars(counters, prefix, n - 1)
           next   == freshVar(before.counters, prefix)
       IN  [names |-> Append(before.names, next.name), counters |-> next.counters]

\* mutant of paramName: the placeholder is named from the parameter alone
paramNameWithoutId(p, lambdaId) == "e_" \o p

paramName(p, lambdaId) == "e_" \o p \o "_" \o ToString(lambdaId)

renamingOf(names, freshNames) ==
  [i \in DOMAIN names |->
     Binding(names[i].kind, names[i].name, Quantified(freshNames[i]))]

\* mutant of keptRenamings: every renaming is kept
keptAllRenamings(renaming) == renaming

\* the renamings newInstance keeps in the running substitution
keptRenamings(renaming) == SelectSeq(renaming, LAMBDA b : startsWith(b.name, "e_"))

instanceOf(effect, subs, fresh, renaming, kept, inst) ==
  [thrown        |-> ~inst.ok,
   effect        |-> IF inst.ok THEN inst.val ELSE effect,
   substitutions |-> IF kept.ok THEN kept.val ELSE subs,
   counters      |-> fresh.counters,
   names         |-> fresh.names]

instantiate(effect, subs, fresh, renaming) ==
  instanceOf(effect, subs, fresh, renaming,
             compose(keptRenamings(renaming), subs),
             applySubstitution(renaming, effect))

\* newInstance: the effect with every quantified name renamed to a fresh one;
\* only the renamings of lambda-introduced names are kept in the running
\* substitution
newInstance(effect, subs, counters) ==
  LET fresh == freshVars(counters, "v", Len(effectNames(effect)))
  IN  instantiate(effect, subs, fresh, renamingOf(effectNames(effect), fresh.names))

NotFound ==
  [thrown |-> TRUE, effect |-> emptyFootprint, substitutions |-> substitutions,
   counters |-> freshVarCounters, names |-> <<>>]

fetchSignature(opcode, scope, arity) ==
  IF opcode \in BuiltinNames
  THEN newInstance(builtinSignatures(opcode, arity), substitutions, freshVarCounters)
  ELSE LET id == lookupValue(currentTable, currentScopeTree, opcode, scope).reference
       IN  IF id = 0 \/ id \notin DOMAIN effects
           THEN NotFound
           ELSE newInstance(effects[id], substitutions, freshVarCounters)

InstanceRecord(node, opcode, sig, subsBefore) ==
  [site |-> node, opcode |-> opcode, builtin |-> opcode \in BuiltinNames,
   names |-> NamesIn(sig.effect),
   kept  |-> SubsKeys(sig.substitutions) \ SubsKeys(subsBefore),
   same  |-> sig.substitutions = subsBefore]

Running(cb) ==
  /\ status = "running"
  /\ agenda # <<>>
  /\ Head(agenda).cb = cb

Init ==
  /\ \E n \in 1..MaxDefs : module \in ModulesOfLen(n)
  /\ agenda = walkModule(module)
  /\ effects = EmptyMap
  /\ errors = EmptyMap
  /\ substitutions = <<>>
  /\ freshVarCounters = EmptyMap
  /\ moduleStack = <<>>
  /\ currentModule = ""
  /\ currentTable = newTable
  /\ currentScopeTree = 0
  /\ status = "running"
  /\ result = NoResult
  /\ issued = <<>>
  /\ instances = <<>>
  /\ earlier = <<>>
  /\ tables = EmptyMap
  /\ shared = FALSE
  /\ input = NoResult
  /\ output = NoResult

\* mutant of updateCurrentModule: the table and the scope tree stay those of
\* the module entered last
updateCurrentModuleOnEntry(stack) ==
  IF Len(stack) > Len(moduleStack)
  THEN /\ currentModule' = stack[Len(stack)]
       /\ currentTable' = lookupTable(module, stack[Len(stack)])
       /\ currentScopeTree' =
            (CHOOSE m \in nestedModules(module) : m.name = stack[Len(stack)]).id
  ELSE UNCHANGED << currentModule, currentTable, currentScopeTree >>

\* updateCurrentModule for a given module stack
updateCurrentModule(stack) ==
  IF Len(stack) > 0
  THEN /\ currentModule' = stack[Len(stack)]
       /\ currentTable' = lookupTable(module, stack[Len(stack)])
       /\ currentScopeTree' =
            (CHOOSE m \in nestedModules(module) : m.name = stack[Len(stack)]).id
  ELSE UNCHANGED << currentModule, currentTable, currentScopeTree >>

enterModuleDef ==
  /\ Running("enterModuleDef")
  /\ LET def == Head(agenda).node
     IN  /\ moduleStack' = Append(moduleStack, def.module.name)
         /\ updateCurrentModule(Append(moduleStack, def.module.name))
  /\ agenda' = Tail(agenda)
  /\ UNCHANGED << tables, shared, earlier, input, output, module, effects, errors, substitutions, freshVarCounters,
                  status, result, issued, instances >>

exitModuleDef ==
  /\ Running("exitModuleDef")
  /\ moduleStack' = SubSeq(moduleStack, 1, Len(moduleStack) - 1)
  /\ updateCurrentModule(SubSeq(moduleStack, 1, Len(moduleStack) - 1))
  /\ agenda' = Tail(agenda)
  /\ UNCHANGED << tables, shared, earlier, input, output, module, effects, errors, substitutions, freshVarCounters,
                  status, result, issued, instances >>

\* mutant of exitLiteral: a literal is skipped once an error is recorded
exitLiteralUnlessErrors ==
  /\ Running("exitLiteral")
  /\ effects' = IF DOMAIN errors # {} THEN effects
                ELSE Put(effects, Head(agenda).node.id, emptyFootprint)
  /\ agenda' = Tail(agenda)
  /\ UNCHANGED << tables, shared, earlier, input, output, module, errors, substitutions, freshVarCounters, moduleStack,
                  currentModule, currentTable, currentScopeTree, status, result,
                  issued, instances >>

exitLiteral ==
  /\ Running("exitLiteral")
  /\ effects' = Put(effects, Head(agenda).node.id, emptyFootprint)
  /\ agenda' = Tail(agenda)
  /\ UNCHANGED << tables, shared, earlier, input, output, module, errors, substitutions, freshVarCounters, moduleStack,
                  currentModule, currentTable, currentScopeTree, status, result,
                  issued, instances >>

\* the value Map.get returns for a missing key
Undefined == [kind |-> "undefined"]

Get(map, k) == IF k \in DOMAIN map THEN map[k] ELSE Undefined

\* mutant of varEffect: the variable is put in the update slot
varEffectAsUpdate(name) == Concrete(emptyVariables, ConcreteVars({name}), emptyVariables)

\* NAME-VAR: the effect of a reference to the state variable name
varEffect(name) == Concrete(ConcreteVars({name}), emptyVariables, emptyVariables)

\* NAME-OP: the name refers to an operator
exitNameOp(expr, sig) ==
  /\ substitutions' = sig.substitutions
  /\ freshVarCounters' = sig.counters
  /\ issued' = issued \o sig.names
  /\ IF sig.thrown
     THEN /\ status' = "thrown"
          /\ UNCHANGED << effects, instances, agenda >>
     ELSE /\ effects' = Put(effects, expr.id, sig.effect)
          /\ instances' = Append(instances,
               InstanceRecord(expr.id, expr.name, sig, substitutions))
          /\ agenda' = Tail(agenda)
          /\ UNCHANGED status

exitNameDef(expr, def) ==
  CASE def.kind = "none" ->
         /\ status' = "thrown"
         /\ UNCHANGED << effects, substitutions, freshVarCounters, issued,
                         instances, agenda >>
    [] def.kind = "param" ->
         IF def.reference = 0 \/ def.reference \notin DOMAIN effects
         THEN /\ status' = "thrown"
              /\ UNCHANGED << effects, substitutions, freshVarCounters,
                              issued, instances, agenda >>
         ELSE /\ effects' = Put(effects, expr.id, effects[def.reference])
              /\ agenda' = Tail(agenda)
              /\ UNCHANGED << status, substitutions, freshVarCounters,
                              issued, instances >>
    [] def.kind = "const" ->
         /\ effects' = Put(effects, expr.id, emptyFootprint)
         /\ agenda' = Tail(agenda)
         /\ UNCHANGED << status, substitutions, freshVarCounters, issued,
                         instances >>
    [] def.kind = "var" ->
         /\ effects' = Put(effects, expr.id, varEffect(expr.name))
         /\ agenda' = Tail(agenda)
         /\ UNCHANGED << status, substitutions, freshVarCounters, issued,
                         instances >>
    [] OTHER -> exitNameOp(expr, fetchSignature(expr.name, expr.id, 2))

exitName ==
  /\ Running("exitName")
  /\ exitNameDef(Head(agenda).node,
                 lookupValue(currentTable, currentScopeTree, Head(agenda).node.name,
                             Head(agenda).node.id))
  /\ UNCHANGED << tables, shared, earlier, input, output, module, errors, moduleStack, currentModule, currentTable,
                  currentScopeTree, result >>

ErrorTree(location, message) == [location |-> location, message |-> message]

\* mutant of rewriteEffects: the stored effects are left as they are
rewriteNothing(s, effs) == effs

\* mutant of rewriteEffects: only the effects with quantified names are kept
rewriteQuantifiedOnly(s, effs) ==
  [i \in {k \in DOMAIN effs : NamesIn(effs[k]) # {}} |->
     LET e == applySubstitution(s, effs[i]) IN IF e.ok THEN e.val ELSE effs[i]]

\* every stored effect rewritten by s; an effect stays as it is when the
\* substitution does not apply to it
rewriteEffects(s, effs) ==
  [i \in DOMAIN effs |->
     LET e == applySubstitution(s, effs[i]) IN IF e.ok THEN e.val ELSE effs[i]]

\* the arrow an application is unified against: the effects of its arguments
\* and the fresh result variable
candidateArrow(expr, resultEffect) ==
  Arrow([i \in DOMAIN expr.args |-> Get(effects, expr.args[i].id)], resultEffect)

\* unify(signature, effect), chained into compose(s, this.substitutions)
unifyAndCompose(signature, effect, subs) ==
  LET substitution == unify(signature, effect)
  IN  IF substitution.ok THEN compose(substitution.val, subs) ELSE substitution

\* mutant of appFailed: the failure is not recorded
appFailedSilently(expr, sig, composed) ==
  /\ substitutions' = sig.substitutions
  /\ UNCHANGED << errors, effects >>

\* mutant of appFailed: the failing application is also given the pure effect
appFailedWithEffect(expr, sig, composed) ==
  /\ substitutions' = sig.substitutions
  /\ errors' = Put(errors, expr.id, ErrorTree(expr.id, composed.err))
  /\ effects' = Put(effects, expr.id, emptyFootprint)

\* the unification failed: the error is recorded at the application
appFailed(expr, sig, composed) ==
  /\ substitutions' = sig.substitutions
  /\ errors' = Put(errors, expr.id, ErrorTree(expr.id, composed.err))
  /\ UNCHANGED effects

\* the unification succeeded with the composed substitution s
appUnified(expr, s, resultEffectWithSubs) ==
  /\ substitutions' = s
  /\ IF resultEffectWithSubs.ok
     THEN /\ effects' = Put(rewriteEffects(s, effects), expr.id, resultEffectWithSubs.val)
          /\ UNCHANGED errors
     ELSE /\ effects' = rewriteEffects(s, effects)
          /\ errors' = Put(errors, expr.id,
                           ErrorTree(expr.id, resultEffectWithSubs.err))

appResult(expr, sig, resultEffect, composed) ==
  IF composed.ok
  THEN appUnified(expr, composed.val, applySubstitution(composed.val, resultEffect))
  ELSE appFailed(expr, sig, composed)

appInfer(expr, sig, res, effect) ==
  IF \E i \in DOMAIN effect.params : effect.params[i] = Undefined
  THEN /\ status' = "thrown"
       /\ substitutions' = sig.substitutions
       /\ freshVarCounters' = res.counters
       /\ issued' = Append(issued \o sig.names, res.name)
       /\ UNCHANGED << effects, errors, instances, agenda >>
  ELSE /\ freshVarCounters' = res.counters
       /\ issued' = Append(issued \o sig.names, res.name)
       /\ instances' = Append(instances,
            InstanceRecord(expr.id, expr.opcode, sig, substitutions))
       /\ agenda' = Tail(agenda)
       /\ UNCHANGED status
       /\ appResult(expr, sig, Quantified(res.name),
                    unifyAndCompose(sig.effect, effect, sig.substitutions))

appWithSignature(expr, sig, res) ==
  IF sig.thrown
  THEN /\ status' = "thrown"
       /\ substitutions' = sig.substitutions
       /\ freshVarCounters' = sig.counters
       /\ issued' = issued \o sig.names
       /\ UNCHANGED << effects, errors, instances, agenda >>
  ELSE appInfer(expr, sig, res, candidateArrow(expr, Quantified(res.name)))

\* an application is not inferred when this holds
skipApp(expr) == Cardinality(DOMAIN errors) > 0

exitAppOf(expr, sig) ==
  IF skipApp(expr)
  THEN /\ agenda' = Tail(agenda)
       /\ UNCHANGED << effects, errors, substitutions, freshVarCounters,
                       status, issued, instances >>
  ELSE appWithSignature(expr, sig, freshVar(sig.counters, "e"))

exitApp ==
  /\ Running("exitApp")
  /\ exitAppOf(Head(agenda).node,
               fetchSignature(Head(agenda).node.opcode, Head(agenda).node.id,
                              Len(Head(agenda).node.args)))
  /\ UNCHANGED << tables, shared, earlier, input, output, module, moduleStack, currentModule, currentTable,
                  currentScopeTree, result >>

\* mutant of opDefEffects: the definition gets the Pure effect
opDefEffectsPure(effs, def) ==
  IF Get(effs, def.expr.id) = Undefined THEN effs
  ELSE Put(effs, def.id, emptyFootprint)

\* mutant of opDefEffects: the definition gets no effect
opDefEffectsSkipped(effs, def) == effs

\* the effects map after OPDEF: the effect of the body, when it has one, is
\* also the effect of the definition
opDefEffects(effs, def) ==
  IF Get(effs, def.expr.id) = Undefined THEN effs
  ELSE Put(effs, def.id, Get(effs, def.expr.id))

exitOpDef ==
  /\ Running("exitOpDef")
  /\ effects' = opDefEffects(effects, Head(agenda).node)
  /\ agenda' = Tail(agenda)
  /\ UNCHANGED << tables, shared, earlier, input, output, module, errors, substitutions, freshVarCounters, moduleStack,
                  currentModule, currentTable, currentScopeTree, status, result,
                  issued, instances >>

exitLet ==
  /\ Running("exitLet")
  /\ LET expr == Head(agenda).node
     IN  effects' = IF DOMAIN errors # {} THEN effects
                    ELSE Put(effects, expr.id, Get(effects, expr.expr.id))
  /\ agenda' = Tail(agenda)
  /\ UNCHANGED << tables, shared, earlier, input, output, module, errors, substitutions, freshVarCounters, moduleStack,
                  currentModule, currentTable, currentScopeTree, status, result,
                  issued, instances >>

\* the placeholders of the first k parameters of a lambda, installed in order
RECURSIVE installParams(_, _, _)
installParams(effs, e, k) ==
  IF k = 0 THEN effs
  ELSE LET before == installParams(effs, e, k - 1)
           id == lookupValue(currentTable, currentScopeTree, e.params[k],
                             e.expr.id).reference
       IN  IF id # 0
           THEN Put(before, id, Quantified(paramName(e.params[k], e.id)))
           ELSE before

enterLambda ==
  /\ Running("enterLambda")
  /\ effects' = installParams(effects, Head(agenda).node, Len(Head(agenda).node.params))
  /\ agenda' = Tail(agenda)
  /\ UNCHANGED << tables, shared, earlier, input, output, module, errors, substitutions, freshVarCounters, moduleStack,
                  currentModule, currentTable, currentScopeTree, status, result,
                  issued, instances >>

exitLambda ==
  /\ Running("exitLambda")
  /\ LET e == Head(agenda).node
         resultEffect == Get(effects, e.expr.id)
         params == [k \in DOMAIN e.params |->
                      applySubstitution(substitutions,
                                        Quantified(paramName(e.params[k], e.id)))]
     IN  effects' = IF resultEffect = Undefined \/ \E k \in DOMAIN params : ~params[k].ok
                    THEN effects
                    ELSE Put(effects, e.id,
                             Arrow([k \in DOMAIN params |-> params[k].val], resultEffect))
  /\ agenda' = Tail(agenda)
  /\ UNCHANGED << tables, shared, earlier, input, output, module, errors, substitutions, freshVarCounters, moduleStack,
                  currentModule, currentTable, currentScopeTree, status, result,
                  issued, instances >>

\* mutant of resultOf: the errors are never reported
resultOfIgnoringErrors(errs, effs) == [kind |-> "right", value |-> effs]

\* what inferEffects returns for the maps the visitor has filled
resultOf(errs, effs) ==
  IF Cardinality(DOMAIN errs) > 0
  THEN [kind |-> "left", value |-> errs]
  ELSE [kind |-> "right", value |-> effs]

\* the tail of inferEffects, after walkModule has returned
inferEffects ==
  /\ status = "running"
  /\ agenda = <<>>
  /\ result' = resultOf(errors, effects)
  /\ status' = "returned"
  /\ UNCHANGED << tables, shared, earlier, input, output, module, agenda, effects, errors, substitutions, freshVarCounters,
                  moduleStack, currentModule, currentTable, currentScopeTree,
                  issued, instances >>

\* mutant of newFreshVarCounters: the counters are shared by all calls
staticFreshVarCounters == freshVarCounters

\* the counters a new visitor starts with
newFreshVarCounters == EmptyMap

\* a further call of inferEffects with the same arguments: a new visitor is
\* constructed and walkModule starts again
callInferEffects ==
  /\ status = "returned"
  /\ Len(earlier) < MaxCalls - 1
  /\ earlier' = Append(earlier, result)
  /\ agenda' = walkModule(module)
  /\ effects' = EmptyMap
  /\ errors' = EmptyMap
  /\ substitutions' = <<>>
  /\ freshVarCounters' = newFreshVarCounters
  /\ moduleStack' = <<>>
  /\ currentModule' = ""
  /\ currentTable' = newTable
  /\ currentScopeTree' = 0
  /\ status' = "running"
  /\ result' = NoResult
  /\ issued' = <<>>
  /\ instances' = <<>>
  /\ UNCHANGED << tables, shared, input, output, module >>

Next ==
  \/ enterModuleDef
  \/ exitModuleDef
  \/ exitLiteral
  \/ exitName
  \/ exitApp
  \/ exitOpDef
  \/ exitLet
  \/ enterLambda
  \/ exitLambda
  \/ inferEffects

Spec == Init /\ [][Next]_vars

\* repeated calls of inferEffects with the same arguments
InitCalls ==
  /\ \E n \in 1..MaxCallDefs : module \in ModulesOfLen(n)
  /\ agenda = walkModule(module)
  /\ effects = EmptyMap
  /\ errors = EmptyMap
  /\ substitutions = <<>>
  /\ freshVarCounters = EmptyMap
  /\ moduleStack = <<>>
  /\ currentModule = ""
  /\ currentTable = newTable
  /\ currentScopeTree = 0
  /\ status = "running"
  /\ result = NoResult
  /\ issued = <<>>
  /\ instances = <<>>
  /\ earlier = <<>>
  /\ tables = EmptyMap
  /\ shared = FALSE
  /\ input = NoResult
  /\ output = NoResult

NextCalls == Next \/ callInferEffects

SpecCalls == InitCalls /\ [][NextCalls]_vars

(***************************************************************************)
(* Import resolution: resolveImports and the ImportResolverVisitor          *)
(***************************************************************************)
MaxImports == 2

Import(i, path, name) == [kind |-> "import", id |-> i, path |-> path, name |-> name]

Override(name, ex) == [name |-> name, ex |-> ex]

Instance(i, name, protoName, overrides) ==
  [kind |-> "instance", id |-> i, name |-> name, protoName |-> protoName,
   overrides |-> overrides]

\* the name of the module nested as the i-th definition
ModuleName(i) == "M" \o ToString(i)

\* module M<i> { <def> }, nested in the module under resolution
NestedModule(i, def) ==
  ModuleDef(i, [name |-> ModuleName(i), id |-> 60 + i, defs |-> << def >>])

\* the definitions the module under resolution may have; i is the id
ImportPool(i) ==
  << Import(i, "A", "*"),
     Import(i, "A", "a"),
     Import(i, "A", "zz"),
     Import(i, "B", "*"),
     Import(i, "A", "N"),
     Instance(i, "I", "A", << Override("c", Lit(Child(i, 1))) >>),
     Instance(i, "I", "A", << Override("a", Lit(Child(i, 1))) >>),
     Instance(i, "I", "A", << Override("zz", Lit(Child(i, 1))) >>),
     Instance(i, "I", "B", << Override("c", Lit(Child(i, 1))) >>),
     NestedModule(i, Import(Child(i, 1), "A", "*")),
     NestedModule(i, Import(Child(i, 1), "B", "*")),
     Import(i, "I", "*") >>

ImportingModules(n) ==
  { [name |-> RootName, id |-> 50, defs |-> [i \in 1..n |-> ImportPool(i)[c[i]]]] :
      c \in [1..n -> DOMAIN ImportPool(1)] }

\* the collected names of the modules: A declares a constant, an operator
\* with a parameter and a nested module N
TableOfA ==
  << NameDefinition("const", "c", 70, 0), NameDefinition("def", "a", 71, 0),
     NameDefinition("param", "p", 72, 71), NameDefinition("module", "N", 73, 0) >>

TableOfN == << NameDefinition("def", "n", 80, 0) >>

TableOfM(i) == << NameDefinition("def", "m", 82 + i, 0) >>

TableOfRoot == << NameDefinition("def", "r", 81, 0) >>

\* the tables of the module under resolution and of the modules nested in it
OwnTables ==
  [name \in {RootName} \cup { ModuleName(i) : i \in 1..MaxImports } |->
     IF name = RootName THEN TableOfRoot
     ELSE TableOfM(CHOOSE i \in 1..MaxImports : ModuleName(i) = name)]

\* the definitions argument of resolveImports, with or without a table for N
SomeDefinitions ==
  { OwnTables @@ ("A" :> TableOfA) @@ ("N" :> TableOfN),
    OwnTables @@ ("A" :> TableOfA) }

QuintError(code, message) == [code |-> code, message |-> message]

\* lookupTable.copyNames: the unscoped definitions of a table, under a
\* namespace when one is given, scoped to the importing module
copyNames(table, namespace, scope) ==
  LET unscoped == SelectSeq(table, LAMBDA d : d.scope = 0)
  IN  [k \in DOMAIN unscoped |->
         NameDefinition(unscoped[k].kind,
                        IF namespace = "" THEN unscoped[k].identifier
                        ELSE namespace \o "::" \o unscoped[k].identifier,
                        unscoped[k].reference, scope)]

mergeTables(t1, t2) == t1 \o t2

\* valueDefinitions.get(name) ?? []
valueDefinitions(table, name) == SelectSeq(table, LAMBDA d : d.identifier = name)

\* id of the module named name in the tree under resolution
moduleId(name) ==
  IF name = "" THEN 0 ELSE (CHOOSE m \in nestedModules(module) : m.name = name).id

InitImports ==
  /\ \E n \in 1..MaxImports : module \in ImportingModules(n)
  /\ input \in [op : {"resolveImports"}, definitions : SomeDefinitions]
  /\ tables = input.definitions
  /\ shared = FALSE
  /\ agenda = walkModule(module)
  /\ errors = EmptyMap
  /\ currentModule = ""
  /\ currentTable = newTable
  /\ moduleStack = <<>>
  /\ status = "running"
  /\ result = NoResult
  /\ effects = EmptyMap
  /\ substitutions = <<>>
  /\ freshVarCounters = EmptyMap
  /\ currentScopeTree = 0
  /\ issued = <<>>
  /\ instances = <<>>
  /\ earlier = <<>>
  /\ output = NoResult

\* the variables of the effect inferrer, which the import resolver leaves alone
inferrerVars ==
  << module, input, output, effects, substitutions, freshVarCounters,
     currentScopeTree, issued, instances, earlier >>


\* updateCurrentModule of the import resolver, for the tables t and the
\* module stack after the push or pop
resolverUpdateCurrentModule(t, stack) ==
  IF Len(stack) = 0
  THEN /\ tables' = t
       /\ shared' = TRUE
       /\ UNCHANGED << currentModule, currentTable, status >>
  ELSE IF stack[Len(stack)] \notin DOMAIN t
  THEN /\ status' = "thrown"
       /\ tables' = t
       /\ currentModule' = stack[Len(stack)]
       /\ UNCHANGED << currentTable, shared >>
  ELSE /\ tables' = t
       /\ currentModule' = stack[Len(stack)]
       /\ currentTable' = t[stack[Len(stack)]]
       /\ shared' = TRUE
       /\ UNCHANGED status

\* mutant of resolverEnterModuleDef: the current table is not stored before
\* the nested module is entered
resolverEnterModuleDefUnsaved ==
  /\ Running("enterModuleDef")
  /\ moduleStack' = Append(moduleStack, Head(agenda).node.module.name)
  /\ resolverUpdateCurrentModule(tables, Append(moduleStack, Head(agenda).node.module.name))
  /\ agenda' = IF status' = "thrown" THEN agenda ELSE Tail(agenda)
  /\ UNCHANGED << errors, result, inferrerVars >>

resolverEnterModuleDef ==
  /\ Running("enterModuleDef")
  /\ moduleStack' = Append(moduleStack, Head(agenda).node.module.name)
  /\ resolverUpdateCurrentModule(Put(tables, currentModule, currentTable),
                                 Append(moduleStack, Head(agenda).node.module.name))
  /\ agenda' = IF status' = "thrown" THEN agenda ELSE Tail(agenda)
  /\ UNCHANGED << errors, result, inferrerVars >>

resolverExitModuleDef ==
  /\ Running("exitModuleDef")
  /\ moduleStack' = SubSeq(moduleStack, 1, Len(moduleStack) - 1)
  /\ resolverUpdateCurrentModule(Put(tables, Head(agenda).node.module.name, currentTable),
                                 SubSeq(moduleStack, 1, Len(moduleStack) - 1))
  /\ agenda' = IF status' = "thrown" THEN agenda ELSE Tail(agenda)
  /\ UNCHANGED << errors, result, inferrerVars >>

\* one override applied to the instance table: every definition of the name
\* is pointed to the overriding expression
repointed(table, o) ==
  [k \in DOMAIN table |->
     IF table[k].identifier = o.name
     THEN NameDefinition(table[k].kind, table[k].identifier, o.ex.id, table[k].scope)
     ELSE table[k]]

\* mutant of overrideErrors: an override of a name that is not a constant
\* is let through
overrideErrorsNotFoundOnly(errs, def, table, o) ==
  IF Len(valueDefinitions(table, o.name)) = 0
  THEN Put(errs, def.id, QuintError("QNT406", "Instantiation error: " \o o.name \o " not found in "
                                     \o def.protoName))
  ELSE errs

\* the error one override records, if any; the later check overwrites the
\* earlier one
overrideErrors(errs, def, table, o) ==
  LET valueDefs == valueDefinitions(table, o.name)
      notFound == IF Len(valueDefs) = 0
                  THEN Put(errs, def.id, QuintError("QNT406", "Instantiation error: " \o o.name \o " not found in "
                                     \o def.protoName))
                  ELSE errs
  IN  IF \E k \in DOMAIN valueDefs : valueDefs[k].kind # "const"
      THEN Put(notFound, def.id, QuintError("QNT406", "Instantiation error: " \o o.name
                                               \o " is not a constant"))
      ELSE notFound

\* def.overrides.forEach over the first k overrides
RECURSIVE applyOverrides(_, _, _, _)
applyOverrides(acc, def, overrides, k) ==
  IF k = 0 THEN acc
  ELSE LET before == applyOverrides(acc, def, overrides, k - 1)
       IN  [table |-> repointed(before.table, overrides[k]),
            errors |-> overrideErrors(before.errors, def, before.table, overrides[k])]

instantiated(def, inst) ==
  /\ errors' = inst.errors
  /\ tables' = Put(tables, def.name, inst.table)
  /\ currentTable' = mergeTables(currentTable,
                                 copyNames(inst.table, def.name, moduleId(currentModule)))
  /\ shared' = FALSE

enterInstanceOf(def) ==
  IF def.protoName \notin DOMAIN tables
  THEN /\ errors' = Put(errors, def.id,
                        QuintError("QNT404", "Module " \o def.protoName \o " not found"))
       /\ UNCHANGED << tables, currentTable, shared >>
  ELSE instantiated(def, applyOverrides([table |-> tables[def.protoName], errors |-> errors],
                                        def, def.overrides, Len(def.overrides)))

enterInstance ==
  /\ Running("enterInstance")
  /\ enterInstanceOf(Head(agenda).node)
  /\ agenda' = Tail(agenda)
  /\ UNCHANGED << moduleStack, currentModule, status, result, inferrerVars >>

\* valueDefs.forEach(def => addValueToTable(def, this.currentTable)): the
\* table object is changed in place, so the entry of tables that holds the
\* same object changes with it
addValuesToTable(valueDefs) ==
  [current |-> currentTable \o valueDefs,
   tables  |-> IF shared THEN Put(tables, currentModule, currentTable \o valueDefs)
               ELSE tables,
   shared  |-> shared,
   errors  |-> errors]

\* the second valueDefs.forEach of enterImport over the first k definitions:
\* an imported module brings the names of its own table, namespaced
RECURSIVE importModules(_, _, _, _)
importModules(acc, def, valueDefs, k) ==
  IF k = 0 THEN acc
  ELSE LET before == importModules(acc, def, valueDefs, k - 1)
           definition == valueDefs[k]
       IN  IF definition.kind # "module" THEN before
           ELSE IF definition.identifier \notin DOMAIN before.tables
           THEN [before EXCEPT !.errors =
                   Put(@, def.id,
                       QuintError("QNT404", "Module " \o def.path \o "::"
                                              \o definition.identifier \o " not found"))]
           ELSE [before EXCEPT
                   !.current = mergeTables(@, copyNames(before.tables[definition.identifier],
                                                        definition.identifier,
                                                        moduleId(currentModule))),
                   !.shared = FALSE]

imported(after) ==
  /\ currentTable' = after.current
  /\ tables' = after.tables
  /\ shared' = after.shared
  /\ errors' = after.errors

enterImportOf(def, importableDefinitions) ==
  IF def.name = "*"
  THEN /\ currentTable' = mergeTables(currentTable, importableDefinitions)
       /\ shared' = FALSE
       /\ UNCHANGED << tables, errors >>
  ELSE IF Len(valueDefinitions(importableDefinitions, def.name)) = 0
  THEN /\ errors' = Put(errors, def.id,
                        QuintError("QNT405", "Name " \o def.path \o "::" \o def.name
                                               \o " not found"))
       /\ UNCHANGED << tables, currentTable, shared >>
  ELSE imported(importModules(addValuesToTable(valueDefinitions(importableDefinitions, def.name)),
                              def, valueDefinitions(importableDefinitions, def.name),
                              Len(valueDefinitions(importableDefinitions, def.name))))

enterImport ==
  /\ Running("enterImport")
  /\ IF Head(agenda).node.path \notin DOMAIN tables
     THEN /\ errors' = Put(errors, Head(agenda).node.id,
                           QuintError("QNT404", "Module " \o Head(agenda).node.path
                                                  \o " not found"))
          /\ UNCHANGED << tables, currentTable, shared >>
     ELSE enterImportOf(Head(agenda).node,
                        copyNames(tables[Head(agenda).node.path], "",
                                  moduleId(currentModule)))
  /\ agenda' = Tail(agenda)
  /\ UNCHANGED << moduleStack, currentModule, status, result, inferrerVars >>

\* what resolveImports returns for the visitor's errors and tables
importResolutionResult(errs, tabs) ==
  IF DOMAIN errs # {} THEN left(errs) ELSE right(tabs)

\* walkModule is over: resolveImports returns
resolveImports ==
  /\ status = "running"
  /\ agenda = <<>>
  /\ status' = "returned"
  /\ result' = importResolutionResult(errors, tables)
  /\ UNCHANGED << agenda, errors, tables, shared, moduleStack, currentModule,
                  currentTable, inferrerVars >>

NextImports ==
  \/ resolverEnterModuleDef
  \/ resolverExitModuleDef
  \/ enterInstance
  \/ enterImport
  \/ resolveImports

SpecImports == InitImports /\ [][NextImports]_vars

\* modules with nested modules, lambdas of several parameters and references
\* to builtin operators
MaxModuleDefs == 2

\* (p, q) => same(q, x)
TwoParams(e) ==
  Lambda(e, << "p", "q" >>,
         App(Child(e, 1), "same", << Name(Child(Child(e, 1), 1), "q"),
                                     Name(Child(Child(e, 1), 2), "x") >>))

\* (p) => not(1, 2): the body fails
FailingLambda(e) == Lambda(e, << "p" >>, NotTwo(Child(e, 1)))

\* module <name> { <defs> } as the definition i; the module has its own id
Nested(i, name, defs) == ModuleDef(i, [name |-> name, id |-> Child(i, 1), defs |-> defs])

\* module M<i> { val g = x }
FlatModule(i) ==
  Nested(i, ModuleName(i),
         << OpDef(Child(Child(i, 1), 1), "g", Name(Child(Child(Child(i, 1), 1), 1), "x")) >>)

\* module M<i> { module N<i> { val g = c }  val h = y }
DeepModule(i) ==
  Nested(i, ModuleName(i),
         << Nested(Child(Child(i, 1), 1), "N" \o ToString(i),
                   << OpDef(Child(Child(Child(Child(i, 1), 1), 1), 1), "g",
                            Name(Child(Child(Child(Child(Child(i, 1), 1), 1), 1), 1), "c")) >>),
            OpDef(Child(Child(i, 1), 2), "h", Name(Child(Child(Child(i, 1), 2), 1), "y")) >>)

\* the definitions a module may have; i is the id
DefPool(i) ==
  << OpDef(i, OpName(i), TwoParams(Child(i, 1))),
     OpDef(i, OpName(i), IdLambda(Child(i, 1))),
     OpDef(i, OpName(i), FailingLambda(Child(i, 1))),
     OpDef(i, OpName(i), LetIn(Child(i, 1))),
     OpDef(i, OpName(i), Name(Child(i, 1), "head")),
     OpDef(i, OpName(i), Name(Child(i, 1), "not")),
     OpDef(i, OpName(i), App(Child(i, 1), "same", << Name(Child(Child(i, 1), 1), "x") >>)),
     FlatModule(i),
     DeepModule(i) >>

InitModules ==
  /\ \E n \in 1..MaxModuleDefs :
       module \in { [name |-> RootName, id |-> 0,
                     defs |-> [i \in 1..n |-> DefPool(i)[c[i]]]] :
                      c \in [1..n -> DOMAIN DefPool(1)] }
  /\ agenda = walkModule(module)
  /\ effects = EmptyMap
  /\ errors = EmptyMap
  /\ substitutions = <<>>
  /\ freshVarCounters = EmptyMap
  /\ moduleStack = <<>>
  /\ currentModule = ""
  /\ currentTable = newTable
  /\ currentScopeTree = 0
  /\ status = "running"
  /\ result = NoResult
  /\ issued = <<>>
  /\ instances = <<>>
  /\ earlier = <<>>
  /\ tables = EmptyMap
  /\ shared = FALSE
  /\ input = NoResult
  /\ output = NoResult

SpecModules == InitModules /\ [][Next]_vars

(***************************************************************************)
(* The effect algebra on its own: unify and compose applied to arguments   *)
(* drawn from bounded sets                                                 *)
(***************************************************************************)
MaxParams == 2

MaxBindings == 2

\* no inference run is in progress
NoRun ==
  /\ module = NoResult
  /\ agenda = <<>>
  /\ effects = EmptyMap
  /\ errors = EmptyMap
  /\ substitutions = <<>>
  /\ freshVarCounters = EmptyMap
  /\ moduleStack = <<>>
  /\ currentModule = ""
  /\ currentTable = newTable
  /\ currentScopeTree = 0
  /\ status = "idle"
  /\ result = NoResult
  /\ issued = <<>>
  /\ instances = <<>>
  /\ earlier = <<>>
  /\ tables = EmptyMap
  /\ shared = FALSE

runVars == << module, agenda, effects, errors, substitutions, freshVarCounters,
              moduleStack, currentModule, currentTable, currentScopeTree,
              status, result, issued, instances, earlier, tables, shared >>

SomeVariables ==
  { emptyVariables, ConcreteVars({"x"}), ConcreteVars({"y"}),
    Quantified("r1"), Quantified("r2") }

SomeConcretes ==
  { Concrete(r, u, emptyVariables) : r \in SomeVariables,
                                     u \in {emptyVariables, Quantified("r1")} }

ParamEffects ==
  { Quantified("e1"), Quantified("e2"), ReadOf("r1"),
    Concrete(ConcreteVars({"x"}), emptyVariables, emptyVariables) }

SomeArrows ==
  UNION { { Arrow(ps, res) : ps \in [1..n -> ParamEffects], res \in ParamEffects } :
            n \in 0..MaxParams }

NestedArrows ==
  { Arrow(<< Arrow(<< p >>, q) >>, q) : p \in ParamEffects, q \in {Quantified("e1"), Quantified("e2")} }

SomeEffects ==
  {Quantified("e1"), Quantified("e2")} \cup SomeConcretes \cup SomeArrows \cup NestedArrows

InitUnify ==
  /\ NoRun
  /\ input \in [op : {"unify"}, ea : SomeEffects, eb : SomeEffects]
  /\ output = NoResult

callUnify ==
  /\ input.op = "unify"
  /\ output = NoResult
  /\ output' = unify(input.ea, input.eb)
  /\ UNCHANGED << input, runVars >>

NextUnify == callUnify

SpecUnify == InitUnify /\ [][NextUnify]_vars

\* well-formed bindings: a name is bound to a value of its own kind
SomeBindings ==
  { Binding("effect", "e1", Quantified("e2")),
    Binding("effect", "e1", Concrete(ConcreteVars({"x"}), emptyVariables, emptyVariables)),
    Binding("effect", "e2", Quantified("e1")),
    Binding("effect", "e2", ReadOf("r1")),
    Binding("variable", "r1", ConcreteVars({"x"})) }

\* well-formed substitutions: no name is bound twice
SubsOfLen(n) ==
  { s \in [1..n -> SomeBindings] : \A i, j \in 1..n : s[i].name = s[j].name => i = j }

InitCompose ==
  /\ NoRun
  /\ \E la, lb, lc \in 0..MaxBindings :
        input \in [op : {"compose"}, a : SubsOfLen(la), b : SubsOfLen(lb), c : SubsOfLen(lc)]
  /\ output = NoResult

\* compose(a, compose(b, c)) and compose(compose(a, b), c)
composeRight(a, b, c) ==
  LET bc == compose(b, c) IN IF bc.ok THEN compose(a, bc.val) ELSE bc

composeLeft(a, b, c) ==
  LET ab == compose(a, b) IN IF ab.ok THEN compose(ab.val, c) ELSE ab

callCompose ==
  /\ input.op = "compose"
  /\ output = NoResult
  /\ output' = [nested |-> composeRight(input.a, input.b, input.c),
                flat   |-> composeLeft(input.a, input.b, input.c)]
  /\ UNCHANGED << input, runVars >>

NextCompose == callCompose

SpecCompose == InitCompose /\ [][NextCompose]_vars

(***************************************************************************)
(* definitionsScanner: scanConflicts over a definition table                *)
(***************************************************************************)
MaxNames == 3

MaxTypes == 2

TypeDefinition(n, ref) == [identifier |-> n, reference |-> ref]

DefinitionTable(names, types) == [nameDefinitions |-> names, typeDefinitions |-> types]

\* the scope tree of the scanned module: the module is scope 0, the scopes 1
\* and 2 are siblings in it and scope 6 lies inside scope 1
ScanTree == 0

\* the definitions a table may hold: unscoped ones, a builtin one (no
\* reference) and ones in the scopes 1, 2 and 6
SomeNames ==
  { NameDefinition("def", n, 1, sc) : n \in {"a", "b"}, sc \in {0, 1, 2, Child(1, 1)} }
    \cup { NameDefinition("def", "a", 0, 0) }

SomeTypes == { TypeDefinition("T", 1), TypeDefinition("U", 1), TypeDefinition("T", 0) }

\* the k-th definition of a table refers to its own node
Referring(ds) ==
  [k \in DOMAIN ds |-> IF ds[k].reference = 0 THEN ds[k]
                       ELSE [ds[k] EXCEPT !.reference = 20 + k]]

\* mutant of canConflict: only unscoped definitions conflict
canConflictUnscoped(tree, d1, d2) == d1.scope = 0 \/ d2.scope = 0

canConflict(tree, d1, d2) ==
  d1.scope = 0 \/ d2.scope = 0 \/ d2.scope \in Range(scopesForId(tree, d1.scope))

ConflictSource(d) ==
  IF d.reference # 0 THEN [kind |-> "user", reference |-> d.reference]
  ELSE [kind |-> "builtin"]

Conflict(kind, identifier, conflictingDefinitions) ==
  [kind |-> kind, identifier |-> identifier,
   sources |-> [k \in DOMAIN conflictingDefinitions |->
                  ConflictSource(conflictingDefinitions[k])]]

\* one step of a reduce: def is skipped when its identifier is already
\* reported, reported when more than one definition conflicts with it
reduceStep(before, kind, def, conflictingDefinitions) ==
  IF def.identifier \in before.reportedConflicts THEN before
  ELSE IF Len(conflictingDefinitions) > 1
  THEN [reportedConflicts |-> before.reportedConflicts \cup {def.identifier},
        conflicts |-> Append(before.conflicts,
                             Conflict(kind, def.identifier, conflictingDefinitions))]
  ELSE before

\* table.nameDefinitions.reduce over the first k definitions
RECURSIVE scanNames(_, _, _)
scanNames(table, tree, k) ==
  IF k = 0 THEN [reportedConflicts |-> {}, conflicts |-> <<>>]
  ELSE reduceStep(scanNames(table, tree, k - 1), "operator", table.nameDefinitions[k],
                  SelectSeq(table.nameDefinitions,
                            LAMBDA d : /\ d.identifier = table.nameDefinitions[k].identifier
                                       /\ canConflict(tree, d, table.nameDefinitions[k])))

\* table.typeDefinitions.reduce over the first k definitions, with its own
\* set of reported identifiers and the same list of conflicts
RECURSIVE scanTypes(_, _, _)
scanTypes(table, conflicts, k) ==
  IF k = 0 THEN [reportedConflicts |-> {}, conflicts |-> conflicts]
  ELSE reduceStep(scanTypes(table, conflicts, k - 1), "type", table.typeDefinitions[k],
                  SelectSeq(table.typeDefinitions,
                            LAMBDA d : d.identifier = table.typeDefinitions[k].identifier))

DefinitionsConflictResult(conflicts) ==
  IF Len(conflicts) > 0 THEN [kind |-> "error", conflicts |-> conflicts]
  ELSE [kind |-> "ok"]

scanConflicts(table, tree) ==
  DefinitionsConflictResult(
    scanTypes(table, scanNames(table, tree, Len(table.nameDefinitions)).conflicts,
              Len(table.typeDefinitions)).conflicts)

InitScan ==
  /\ NoRun
  /\ \E n \in 0..MaxNames, t \in 0..MaxTypes :
       \E names \in [1..n -> SomeNames], types \in [1..t -> SomeTypes] :
         input = [op |-> "scanConflicts",
                  table |-> DefinitionTable(Referring(names), Referring(types)),
                  tree |-> ScanTree]
  /\ output = NoResult

callScanConflicts ==
  /\ input.op = "scanConflicts"
  /\ output = NoResult
  /\ output' = scanConflicts(input.table, input.tree)
  /\ UNCHANGED << input, runVars >>

NextScan == callScanConflicts

SpecScan == InitScan /\ [][NextScan]_vars

(***************************************************************************)
(* Properties                                                              *)
(***************************************************************************)
Defs == module.defs

BodyId(i) == Child(i, 1)

ReadVar(v) == Concrete(ConcreteVars({v}), emptyVariables, emptyVariables)

\* C1: inferEffects returns Left exactly when the errors map is not empty, and
\* then the value is the whole errors map; otherwise it returns Right with the
\* whole effects map.
C1_LeftIffErrors ==
  status = "returned" =>
    /\ (result.kind = "left") <=> (DOMAIN errors # {})
    /\ (result.kind = "left") => (result.value = errors)
    /\ (result.kind # "left") => (result.kind = "right" /\ result.value = effects)

C1_Witness ==
  /\ status = "returned"
  /\ result.kind = "left"
  /\ DOMAIN effects # {}

\* bodies that are inferred without error in a module of their own
ValidAlone(e) == { Lit(e), NotLit(e), LetIn(e) }

\* C2 (as claimed): in a finished run in which an application failed, errors
\* has exactly one entry and every valid body of another top-level definition
\* (a literal, an application, a let-in) has an effect.
C2_FailSoft ==
  (status = "returned" /\ DOMAIN errors # {}) =>
    /\ Cardinality(DOMAIN errors) = 1
    /\ \A i \in DOMAIN Defs :
         Defs[i].expr \in ValidAlone(BodyId(i)) => BodyId(i) \in DOMAIN effects

\* C3 (as claimed): with def f1(p) = p applied to x at one call site and to y
\* at the next, both applications get the effect of their own argument and
\* the stored effect of f1 still has quantified variables.
C3_PolymorphicReuse ==
  ( /\ status = "returned"
    /\ Len(Defs) >= 3
    /\ Defs[1].expr = IdLambda(BodyId(1))
    /\ Defs[2].expr = CallF1(BodyId(2), "x")
    /\ Defs[3].expr = CallF1(BodyId(3), "y") ) =>
    /\ Get(effects, BodyId(2)) = ReadVar("x")
    /\ Get(effects, BodyId(3)) = ReadVar("y")
    /\ NamesIn(effects[1]) # {}

\* C4 (as claimed): with def f1(p) = p, every application f1(v) to a state
\* variable v has the effect Read[v] when the run has finished.
C4_ApplicationPropagation ==
  (status = "returned" /\ Defs[1].expr = IdLambda(BodyId(1))) =>
    \A i \in DOMAIN Defs : \A v \in {"x", "y"} :
      Defs[i].expr = CallF1(BodyId(i), v) => Get(effects, BodyId(i)) = ReadVar(v)

\* the substitution exitApp gets from unify for the application it is about
\* to infer
learnedAt(expr, sig) ==
  unify(sig.effect, candidateArrow(expr, Quantified(freshVar(sig.counters, "e").name)))

unifiedBy(expr, sig) ==
  LET learned == learnedAt(expr, sig)
  IN  /\ learned.ok
      /\ substitutions' = compose(learned.val, sig.substitutions).val
      /\ \A id \in DOMAIN effects' :
           NamesIn(effects'[id]) \cap SubsKeys(learned.val) = {}

\* C5: a step of exitApp that unifies composes the learned substitution into
\* the running one and leaves no stored effect that mentions a variable the
\* learned substitution binds.
C5_EagerRewrite ==
  [][ ( /\ Running("exitApp")
        /\ ~skipApp(Head(agenda).node)
        /\ status' = "running"
        /\ errors' = errors )
      => unifiedBy(Head(agenda).node,
                   fetchSignature(Head(agenda).node.opcode, Head(agenda).node.id,
                                  Len(Head(agenda).node.args))) ]_vars

\* a later sibling has observed a binding learned at an earlier one: the
\* second use of p in (p) => same(same(p, x), p) has the effect Read[x]
C5_Witness ==
  \E i \in DOMAIN Defs :
    /\ Defs[i].expr = SiblingLambda(BodyId(i))
    /\ Get(effects, Child(Child(BodyId(i), 1), 2)) = ReadVar("x")

ComposeEffects ==
  ParamEffects \cup SomeConcretes
    \cup { Arrow(<< p, ReadOf("r1") >>, q) :
             p, q \in {Quantified("e1"), Quantified("e2")} }

\* C7: compose(a, compose(b, c)) and compose(compose(a, b), c) succeed and
\* give equal results when applied to any effect.
C7_ComposeAssociative ==
  (output # NoResult) =>
    /\ output.nested.ok
    /\ output.flat.ok
    /\ \A e \in ComposeEffects :
         applySubstitution(output.nested.val, e) = applySubstitution(output.flat.val, e)

C7_Witness ==
  /\ output # NoResult
  /\ output.nested.ok
  /\ Len(input.a) > 0 /\ Len(input.b) > 0 /\ Len(input.c) > 0
  /\ \E i \in DOMAIN input.c : output.nested.val[i].value # input.c[i].value

\* C8: no name is issued twice, and the counter of a prefix is the number of
\* names issued with that prefix (it is never reset).
C8_FreshNamesUnique ==
  /\ \A i, j \in DOMAIN issued : issued[i] = issued[j] => i = j
  /\ \A prefix \in {"e", "v"} :
       Counter(freshVarCounters, prefix) =
         Cardinality({i \in DOMAIN issued : startsWith(issued[i], prefix)})

C8_Witness ==
  /\ status = "returned"
  /\ Counter(freshVarCounters, "e") >= 2
  /\ Counter(freshVarCounters, "v") >= 2

\* C9: an instance of a builtin signature leaves the running substitution as
\* it is, and two instances of the same builtin share no variable name.
C9_BuiltinIndependence ==
  \A k, l \in DOMAIN instances :
    instances[k].builtin =>
      /\ instances[k].same
      /\ instances[k].kept = {}
      /\ (k # l /\ instances[l].opcode = instances[k].opcode)
           => instances[k].names \cap instances[l].names = {}

C9_Witness ==
  \E k, l \in DOMAIN instances :
    /\ k # l
    /\ instances[k].builtin
    /\ instances[k].opcode = instances[l].opcode
    /\ instances[k].site # instances[l].site
    /\ instances[k].names # {}
    /\ instances[l].names # {}

\* C10: in a run with val f1 = x, the run does not stop at a later use of
\* f1, and once the use has been left it has the effect recorded for x,
\* until the end of the run; in { val t = x  t } the use of t has the effect
\* of x at the end of the run.
C10_LetTransparency ==
  /\ (Defs[1].expr = Name(BodyId(1), "x")) =>
       \A j \in DOMAIN Defs :
         Defs[j].expr = Name(BodyId(j), "f1") =>
           /\ (status = "thrown") => Head(agenda).node.id # BodyId(j)
           /\ (\A k \in DOMAIN agenda : agenda[k].node.id # BodyId(j)) =>
                /\ BodyId(j) \in DOMAIN effects
                /\ effects[BodyId(j)] = effects[BodyId(1)]
  /\ (status = "returned") =>
       \A j \in DOMAIN Defs :
         Defs[j].expr = LetIn(BodyId(j))
           => /\ Child(BodyId(j), 2) \in DOMAIN effects
              /\ effects[Child(BodyId(j), 2)] = Get(effects, Child(Child(BodyId(j), 1), 1))

C10_Witness ==
  /\ status = "returned"
  /\ Defs[1].expr = Name(BodyId(1), "x")
  /\ \E j \in DOMAIN Defs :
       /\ Defs[j].expr = Name(BodyId(j), "f1")
       /\ Get(effects, BodyId(j)) = ReadVar("x")

\* the expression nodes of a tree
RECURSIVE exprNodes(_)
exprNodes(e) ==
  {e} \cup
    CASE e.kind = "app" -> UNION {exprNodes(e.args[i]) : i \in DOMAIN e.args}
      [] e.kind = "lambda" -> exprNodes(e.expr)
      [] e.kind = "let" -> exprNodes(e.opdef.expr) \cup exprNodes(e.expr)
      [] OTHER -> {}

Nodes == UNION {exprNodes(Defs[i].expr) : i \in DOMAIN Defs}

\* the ids of the nodes the traversal has not left yet
Pending == {agenda[i].node.id : i \in DOMAIN agenda}

\* C11: once the traversal has left a reference to a state variable v, the
\* effects map has Concrete(read = {v}, update = {}, temporal = {}) for it,
\* in every later state of the run.
C11_VariableRead ==
  \A n \in Nodes :
    (n.kind = "name" /\ n.name \in {"x", "y"} /\ n.id \notin Pending) =>
      Get(effects, n.id) = Concrete(ConcreteVars({n.name}), emptyVariables, emptyVariables)

\* a reference to x still has Read[x] after an application has rewritten the map
C11_Witness ==
  /\ status = "returned"
  /\ Defs[1].expr = Name(BodyId(1), "x")
  /\ effects[BodyId(1)] = ReadVar("x")
  /\ Len(substitutions) >= 2

\* C12: once the traversal has left a literal, the effects map has the
\* concrete effect with three empty slots for it, in every later state of the
\* run, also when an error was recorded before the literal was visited.
C12_LiteralPure ==
  \A n \in Nodes :
    (n.kind = "lit" /\ n.id \notin Pending) =>
      Get(effects, n.id) = Concrete(emptyVariables, emptyVariables, emptyVariables)

\* a literal visited after the failing application of the first definition
C12_Witness ==
  /\ status = "returned"
  /\ Len(Defs) >= 2
  /\ Defs[1].expr = NotTwo(BodyId(1))
  /\ Defs[2].expr = Lit(BodyId(2))
  /\ BodyId(1) \in DOMAIN errors
  /\ effects[BodyId(2)] = Concrete(emptyVariables, emptyVariables, emptyVariables)

\* the operators a node refers to
refersTo(n) ==
  CASE n.kind = "name" -> {n.name} \cap {OpName(k) : k \in 1..MaxDefs}
    [] n.kind = "app"  -> {n.opcode} \ BuiltinNames
    [] OTHER -> {}

\* every reference to an operator stands in a later definition than the
\* operator's own
RefersBackwards ==
  \A i \in DOMAIN Defs : \A n \in exprNodes(Defs[i].expr) :
    refersTo(n) \subseteq {OpName(k) : k \in 1..(i - 1)}

\* C13 (as claimed): a run over a module in which every operator is defined
\* before it is referred to never throws.
C13_NeverThrows ==
  RefersBackwards => status # "thrown"

\* the operator of an application has no builtin signature and no inferred
\* effect
noSignature(expr) ==
  /\ expr.opcode \notin BuiltinNames
  /\ LET id == lookupValue(currentTable, currentScopeTree, expr.opcode, expr.id).reference
     IN  id = 0 \/ id \notin DOMAIN effects

\* the application stands in the body of the operator it applies
recursiveCall(expr) ==
  \E i \in DOMAIN Defs : expr \in exprNodes(Defs[i].expr) /\ expr.opcode = Defs[i].name

\* C14 (as claimed): when exitApp meets a non-recursive application of an
\* operator without a signature, it records an error at the application and
\* the traversal goes on.
C14_UnresolvedSignature ==
  [][ ( /\ Running("exitApp")
        /\ ~skipApp(Head(agenda).node)
        /\ ~recursiveCall(Head(agenda).node)
        /\ noSignature(Head(agenda).node) )
      => ( /\ status' = "running"
           /\ Head(agenda).node.id \in DOMAIN errors'
           /\ agenda' = Tail(agenda) ) ]_vars

\* effect after is effect before, or effect before under the substitution subs
sameOrRewritten(before, after, subs) ==
  \/ after = before
  \/ LET r == applySubstitution(subs, before) IN r.ok /\ r.val = after

\* C15: in every step of a run, every key of effects stays a key and its
\* value is the old one or the old one under the running substitution, and
\* every entry of errors stays as it is.
C15_MonotoneRunState ==
  [][ status = "running" =>
        /\ \A k \in DOMAIN effects :
             /\ k \in DOMAIN effects'
             /\ sameOrRewritten(effects[k], effects'[k], substitutions')
        /\ \A k \in DOMAIN errors :
             k \in DOMAIN errors' /\ errors'[k] = errors[k] ]_vars

\* the placeholder installed for the parameter of def f1(p) = p has been
\* rewritten in place by the call f1(x)
C15_Witness ==
  /\ status = "returned"
  /\ Defs[1].expr = IdLambda(BodyId(1))
  /\ Get(effects, ParamRef(BodyId(1), 1)) = ReadVar("x")
  /\ Cardinality(DOMAIN effects) >= 7

\* an application one of whose arguments has an error
hasFailedArgument(n) ==
  n.kind = "app" /\ \E i \in DOMAIN n.args : n.args[i].id \in DOMAIN errors

\* C16: no node id is a key of both effects and errors, and an application
\* left with a failed argument has neither an effect nor an error.
C16_EffectErrorExclusive ==
  /\ DOMAIN effects \cap DOMAIN errors = {}
  /\ \A n \in Nodes :
       (hasFailedArgument(n) /\ n.id \notin Pending)
         => n.id \notin DOMAIN effects \cup DOMAIN errors

\* not(not(1, 2)): the error is at the inner application only
C16_Witness ==
  /\ status = "returned"
  /\ \E i \in DOMAIN Defs :
       /\ Defs[i].expr = NotOfFailing(BodyId(i))
       /\ Child(BodyId(i), 1) \in DOMAIN errors
       /\ BodyId(i) \notin DOMAIN effects \cup DOMAIN errors

\* C17: a call of inferEffects that follows other calls with the same
\* arguments starts from the state of a new visitor and returns what they
\* returned, generated names included.
C17_CallsIsolated ==
  /\ (earlier # <<>> /\ status = "running" /\ agenda = walkModule(module)) =>
       /\ effects = EmptyMap
       /\ errors = EmptyMap
       /\ substitutions = <<>>
       /\ freshVarCounters = EmptyMap
  /\ (earlier # <<>> /\ status = "returned") =>
       \A i \in DOMAIN earlier : earlier[i] = result

\* a second call has returned effects that hold generated names
C17_Witness ==
  /\ earlier # <<>>
  /\ status = "returned"
  /\ result.kind = "right"
  /\ \E id \in DOMAIN result.value : NamesIn(result.value[id]) # {}
  /\ Len(issued) >= 2

\* a is what is left of w after some of its first elements
isSuffix(a, w) ==
  Len(a) <= Len(w) /\ a = SubSeq(w, Len(w) - Len(a) + 1, Len(w))

\* the positions in the walk w at which the node n is exited
exitsOf(w, n) ==
  {k \in DOMAIN w : w[k].node.id = n.id /\ w[k].cb \notin {"enterLambda", "enterModuleDef"}}

childrenOf(n) ==
  CASE n.kind = "app" -> {n.args[i] : i \in DOMAIN n.args}
    [] n.kind = "lambda" -> {n.expr}
    [] n.kind = "let" -> {n.opdef.expr, n.expr}
    [] OTHER -> {}

\* C18 (as claimed): the callbacks are made in the order of one traversal that
\* exits every node once and after its children, and a run over a module in
\* which every operator is defined before it is referred to stops only when
\* the traversal is complete.
C18_CompleteTraversal ==
  /\ isSuffix(agenda, walkModule(module))
  /\ \A n \in Nodes :
       /\ Cardinality(exitsOf(walkModule(module), n)) = 1
       /\ \A c \in childrenOf(n) : \A k \in exitsOf(walkModule(module), c) :
            \A l \in exitsOf(walkModule(module), n) : k < l
  /\ (RefersBackwards /\ status # "running") => (status = "returned" /\ agenda = <<>>)

\* the effect variable n stands somewhere in the effect e
RECURSIVE occursIn(_, _)
occursIn(n, e) ==
  CASE e.kind = "quantified" -> e.name = n
    [] e.kind = "arrow" ->
         occursIn(n, e.result) \/ \E i \in DOMAIN e.params : occursIn(n, e.params[i])
    [] OTHER -> FALSE

\* unify(a, b) must fail on the occurs check
cyclical(a, b) == a.kind = "quantified" /\ b # a /\ occursIn(a.name, b)

\* C19: unify of Quantified(n) with another effect in which n occurs fails,
\* whichever side the variable is on, and unify(Quantified(n), Quantified(n))
\* succeeds with the empty substitution.
C19_OccursCheck ==
  (output # NoResult) =>
    /\ (cyclical(input.ea, input.eb) \/ cyclical(input.eb, input.ea)) => ~output.ok
    /\ (input.ea.kind = "quantified" /\ input.eb = input.ea) => output = right(<<>>)

\* e1 against ((p) => e1) => e1 has failed
C19_Witness ==
  /\ output # NoResult
  /\ ~output.ok
  /\ input.ea = Quantified("e1")
  /\ input.eb \in NestedArrows
  /\ occursIn("e1", input.eb)

\* the imports and instances of a module in the order walkModule visits
\* them, each with the module that holds it
RECURSIVE importsOf(_)
importsOf(m) ==
  FlattenSeq([i \in DOMAIN m.defs |->
                IF m.defs[i].kind = "module" THEN importsOf(m.defs[i].module)
                ELSE << [def |-> m.defs[i], holder |-> m] >>])

\* what each module name declares when the k-th import or instance is
\* visited: the tables given to resolveImports and, for an instance made
\* before, the declarations of the module it instantiates
RECURSIVE declaredBefore(_, _)
declaredBefore(ds, k) ==
  IF k = 1 THEN input.definitions
  ELSE LET before == declaredBefore(ds, k - 1)
           d == ds[k - 1].def
       IN  IF d.kind = "instance" /\ d.protoName \in DOMAIN before
           THEN Put(before, d.name, before[d.protoName])
           ELSE before

\* module not found, named definition not found, or invalid override
unresolved(d, declared) ==
  IF d.kind = "import"
  THEN \/ d.path \notin DOMAIN declared
       \/ /\ d.name # "*"
          /\ \/ ~ \E k \in DOMAIN declared[d.path] :
                    declared[d.path][k].identifier = d.name /\ declared[d.path][k].scope = 0
             \/ \E k \in DOMAIN declared[d.path] :
                  /\ declared[d.path][k].identifier = d.name
                  /\ declared[d.path][k].scope = 0
                  /\ declared[d.path][k].kind = "module"
                  /\ d.name \notin DOMAIN declared
  ELSE \/ d.protoName \notin DOMAIN declared
       \/ \E o \in DOMAIN d.overrides :
            \/ ~ \E k \in DOMAIN declared[d.protoName] :
                   declared[d.protoName][k].identifier = d.overrides[o].name
            \/ \E k \in DOMAIN declared[d.protoName] :
                 /\ declared[d.protoName][k].identifier = d.overrides[o].name
                 /\ declared[d.protoName][k].kind # "const"

\* ids of the imports and instances that cannot be resolved
failingDefinitions(ds) ==
  { ds[k].def.id : k \in { j \in DOMAIN ds : unresolved(ds[j].def, declaredBefore(ds, j)) } }

\* kind and name of the unscoped declarations of a table, under a namespace
unscopedNames(table, namespace) ==
  { [kind |-> table[k].kind,
     identifier |-> IF namespace = "" THEN table[k].identifier
                    ELSE namespace \o "::" \o table[k].identifier] :
      k \in { j \in DOMAIN table : table[j].scope = 0 } }

\* the names a resolved import or instance brings into the module that holds it
copiedNames(d, declared) ==
  IF d.kind = "instance" THEN unscopedNames(declared[d.protoName], d.name)
  ELSE IF d.name = "*" THEN unscopedNames(declared[d.path], "")
  ELSE { n \in unscopedNames(declared[d.path], "") : n.identifier = d.name }
         \cup UNION { unscopedNames(declared[n.identifier], n.identifier) :
                        n \in { x \in unscopedNames(declared[d.path], "") :
                                  x.identifier = d.name /\ x.kind = "module" } }

\* the table holds a definition of that kind and name in the scope of module m
holds(table, n, m) ==
  \E k \in DOMAIN table :
    /\ table[k].kind = n.kind
    /\ table[k].identifier = n.identifier
    /\ table[k].scope = m.id

\* C20: resolveImports returns Left with the error map if and only if some
\* import or instance of the module could not be resolved (module not found,
\* named definition not found, invalid instance override), and the errors are
\* keyed by the ids of exactly those definitions; otherwise it returns Right
\* with the tables, in which every module's table holds the names its imports
\* and instances copied and every instance has a table.
C20_LeftIffUnresolved ==
  (status = "returned") =>
    /\ result.ok <=> failingDefinitions(importsOf(module)) = {}
    /\ ~result.ok => DOMAIN result.err = failingDefinitions(importsOf(module))
    /\ result.ok =>
         /\ DOMAIN input.definitions \subseteq DOMAIN result.val
         /\ \A k \in DOMAIN importsOf(module) :
              /\ \A n \in copiedNames(importsOf(module)[k].def,
                                      declaredBefore(importsOf(module), k)) :
                   holds(result.val[importsOf(module)[k].holder.name], n,
                         importsOf(module)[k].holder)
              /\ importsOf(module)[k].def.kind = "instance" =>
                   importsOf(module)[k].def.name \in DOMAIN result.val

\* a module with two imports of which only the second one fails: Left with
\* one error, at the id of the second
C20_Witness ==
  /\ status = "returned"
  /\ Len(module.defs) = 2
  /\ module.defs[1] = Import(1, "A", "*")
  /\ module.defs[2] = Import(2, "A", "zz")
  /\ ~result.ok
  /\ DOMAIN result.err = {2}
  /\ result.err[2].code = "QNT405"

\* the scope s is the scope t or lies around it (the parent of a scope i of
\* the tree is i \div 5, the module is 0)
RECURSIVE encloses(_, _)
encloses(s, t) == IF t = 0 THEN FALSE ELSE s = t \/ encloses(s, t \div 5)

\* the i-th and the j-th name definition are two definitions of one name,
\* one of them unscoped or in a scope around the other's
conflictingPair(names, i, j) ==
  /\ i # j
  /\ names[i].identifier = names[j].identifier
  /\ \/ names[i].scope = 0
     \/ names[j].scope = 0
     \/ encloses(names[i].scope, names[j].scope)
     \/ encloses(names[j].scope, names[i].scope)

conflictingNames(table) ==
  { table.nameDefinitions[i].identifier :
      i \in { k \in DOMAIN table.nameDefinitions :
                \E j \in DOMAIN table.nameDefinitions :
                  conflictingPair(table.nameDefinitions, k, j) } }

conflictingTypes(table) ==
  { table.typeDefinitions[i].identifier :
      i \in { k \in DOMAIN table.typeDefinitions :
                \E j \in DOMAIN table.typeDefinitions :
                  j # k /\ table.typeDefinitions[j].identifier
                             = table.typeDefinitions[k].identifier } }

\* the identifiers scanConflicts has reported with a kind
reportedAs(kind) ==
  IF output.kind # "error" THEN {}
  ELSE { output.conflicts[i].identifier :
           i \in { k \in DOMAIN output.conflicts : output.conflicts[k].kind = kind } }

\* C21: scanConflicts returns kind 'error' if and only if the table holds two
\* name definitions of one identifier of which one is unscoped or in a scope
\* that encloses the other's, or two type definitions of one identifier;
\* definitions in disjoint sibling scopes do not conflict; exactly the
\* conflicting identifiers are reported, each once per kind.
C21_ErrorIffConflict ==
  (output # NoResult) =>
    /\ output.kind \in {"ok", "error"}
    /\ output.kind = "error" <=>
         conflictingNames(input.table) \cup conflictingTypes(input.table) # {}
    /\ reportedAs("operator") = conflictingNames(input.table)
    /\ reportedAs("type") = conflictingTypes(input.table)
    /\ output.kind = "error" =>
         \A i, j \in DOMAIN output.conflicts :
           (/\ output.conflicts[i].kind = output.conflicts[j].kind
            /\ output.conflicts[i].identifier = output.conflicts[j].identifier) => i = j

\* a in scope 1, in its sibling scope 2 and in scope 6 inside scope 1: one
\* conflict, between the first and the third
C21_Witness ==
  /\ output # NoResult
  /\ Len(input.table.nameDefinitions) = 3
  /\ \A k \in 1..3 : input.table.nameDefinitions[k].identifier = "a"
  /\ [k \in 1..3 |-> input.table.nameDefinitions[k].scope] = << 1, 2, Child(1, 1) >>
  /\ input.table.typeDefinitions = <<>>
  /\ output.kind = "error"
  /\ Len(output.conflicts) = 1
  /\ output.conflicts[1] = [kind |-> "operator", identifier |-> "a",
                            sources |-> << [kind |-> "user", reference |-> 21],
                                           [kind |-> "user", reference |-> 23] >>]

\* the positions of the definitions of an identifier that conflict with
\* another definition of it
conflictingPositions(names, identifier) ==
  { i \in DOMAIN names :
      /\ names[i].identifier = identifier
      /\ \E j \in DOMAIN names : conflictingPair(names, i, j) }

\* what a result reports, without the order: kind, identifier and sources
\* of every conflict
reportOf(res) ==
  IF res.kind # "error" THEN {}
  ELSE { [kind |-> res.conflicts[i].kind, identifier |-> res.conflicts[i].identifier,
          sources |-> Range(res.conflicts[i].sources)] : i \in DOMAIN res.conflicts }

\* the table with its name definitions in the order p and its type
\* definitions in the order q
reordered(table, p, q) ==
  DefinitionTable([k \in DOMAIN table.nameDefinitions |-> table.nameDefinitions[p[k]]],
                  [k \in DOMAIN table.typeDefinitions |-> table.typeDefinitions[q[k]]])

\* C30 (as claimed): for every identifier scanConflicts reports, the sources
\* hold one entry for every definition of the identifier that conflicts with
\* another definition of it, and the reported identifiers and sources are the
\* same for every order of the definitions in the table.
C30_SourcesCompleteAnyOrder ==
  (output # NoResult /\ output.kind = "error") =>
    /\ \A i \in DOMAIN output.conflicts :
         output.conflicts[i].kind = "operator" =>
           /\ Len(output.conflicts[i].sources)
                = Cardinality(conflictingPositions(input.table.nameDefinitions,
                                                   output.conflicts[i].identifier))
           /\ \A k \in conflictingPositions(input.table.nameDefinitions,
                                            output.conflicts[i].identifier) :
                ConflictSource(input.table.nameDefinitions[k])
                  \in Range(output.conflicts[i].sources)
    /\ \A p \in Permutations(DOMAIN input.table.nameDefinitions) :
         reportOf(scanConflicts(reordered(input.table, p,
                                          [k \in DOMAIN input.table.typeDefinitions |-> k]),
                                input.tree))
           = reportOf(output)
    /\ \A q \in Permutations(DOMAIN input.table.typeDefinitions) :
         reportOf(scanConflicts(reordered(input.table,
                                          [k \in DOMAIN input.table.nameDefinitions |-> k], q),
                                input.tree))
           = reportOf(output)

\* the lambdas of the module under inference
lambdasOf(m) ==
  { ev.node : ev \in { x \in Range(walkModule(m)) : x.cb = "exitLambda" } }

\* the placeholder of a parameter, named from its name and the lambda's id
placeholder(p, l) == "e_" \o p \o "_" \o ToString(l.id)

\* what the running substitution makes of a placeholder: the value of the
\* first binding of its name, or the placeholder itself
substituted(subs, name) ==
  IF \E i \in DOMAIN subs : subs[i].name = name
  THEN subs[CHOOSE i \in DOMAIN subs :
              subs[i].name = name /\ \A j \in 1..(i - 1) : subs[j].name # name].value
  ELSE Quantified(name)

\* C22: when exitLambda finds an effect for the body, the lambda gets an
\* arrow with one parameter effect per formal parameter, in declaration
\* order, the i-th being the running substitution applied to the placeholder
\* named from the parameter and the lambda's id, and the body's effect as
\* result; when the body has no effect the lambda gets neither an effect nor
\* an error; lambdas with different ids share no placeholder name.
C22_LambdaRule ==
  [][ /\ \A l1, l2 \in lambdasOf(module) :
           l1.id # l2.id =>
             \A k1 \in DOMAIN l1.params, k2 \in DOMAIN l2.params :
               placeholder(l1.params[k1], l1) # placeholder(l2.params[k2], l2)
      /\ Running("exitLambda") =>
           IF Head(agenda).node.expr.id \in DOMAIN effects
           THEN /\ Head(agenda).node.id \in DOMAIN effects'
                /\ effects'[Head(agenda).node.id].kind = "arrow"
                /\ effects'[Head(agenda).node.id].result = effects[Head(agenda).node.expr.id]
                /\ effects'[Head(agenda).node.id].params =
                     [k \in DOMAIN Head(agenda).node.params |->
                        substituted(substitutions,
                                    placeholder(Head(agenda).node.params[k], Head(agenda).node))]
           ELSE /\ Head(agenda).node.id \notin DOMAIN effects'
                /\ Head(agenda).node.id \notin DOMAIN errors'
    ]_vars

\* def f1(p, q) = same(q, x) has been left with (e_p_6, Read[x]) => Read[x],
\* and def f2(p) = p uses the parameter name of f1 once more
C22_Witness ==
  /\ status = "returned"
  /\ module.defs = << OpDef(1, OpName(1), TwoParams(Child(1, 1))),
                     OpDef(2, OpName(2), IdLambda(Child(2, 1))) >>
  /\ effects[Child(1, 1)] = Arrow(<< Quantified("e_p_6"), varEffect("x") >>, varEffect("x"))
  /\ effects[Child(2, 1)] = Arrow(<< Quantified("e_p_11") >>, Quantified("e_p_11"))

\* the ids on the path from a node to the root of the tree (the parent of a
\* node i is i \div 5, the root module is 0)
RECURSIVE ancestors(_)
ancestors(i) == IF i = 0 THEN {0} ELSE {i} \cup ancestors(i \div 5)

\* the innermost module that holds the node i
holderOf(i) ==
  CHOOSE m \in nestedModules(module) :
    /\ m.id \in ancestors(i)
    /\ \A n \in nestedModules(module) : n.id \in ancestors(i) => n.id <= m.id

\* the node at which the next callback is made lies in module m
contextIs(m) ==
  /\ moduleStack # <<>>
  /\ moduleStack[Len(moduleStack)] = m.name
  /\ currentModule = m.name
  /\ currentTable = collectDefinitions(m)
  /\ currentScopeTree = m.id

\* C23: whenever a callback is about to be made for an expression or an
\* operator definition, the current module, table and scope tree are those
\* of the innermost module that holds the node, which is the top of
\* moduleStack; when a nested module is about to be exited they are its own.
C23_ModuleContext ==
  (status = "running" /\ agenda # <<>>) =>
    CASE Head(agenda).cb = "enterModuleDef" ->
           Head(agenda).node.id # 0 => contextIs(holderOf(Head(agenda).node.id))
      [] Head(agenda).cb = "exitModuleDef" -> contextIs(Head(agenda).node.module)
      [] OTHER -> contextIs(holderOf(Head(agenda).node.id))

\* in module M1 { module N1 { val g = c }  val h = y } the reference to y is
\* looked up in M1, after N1 has been exited
C23_Witness ==
  /\ status = "running"
  /\ module.defs[1] = DeepModule(1)
  /\ agenda # <<>>
  /\ Head(agenda) = Ev("exitName", Name(Child(Child(Child(1, 1), 2), 1), "y"))
  /\ moduleStack = << RootName, ModuleName(1) >>
  /\ currentTable = lookupTable(module, ModuleName(1))
  /\ currentScopeTree = Child(1, 1)

\* every definition of the name in the table is a constant, and there is one
overridable(table, name) ==
  /\ \E k \in DOMAIN table : table[k].identifier = name
  /\ \A k \in DOMAIN table : table[k].identifier = name => table[k].kind = "const"

\* C24 (as claimed): when enterInstance finds the instantiated module, then
\* for each override (name, ex) the instance table's definitions of name
\* refer to ex if name exists in the module and is a constant throughout;
\* otherwise a QNT406 error is recorded at the instance's id and the
\* definitions of name refer to what they referred to in the module.
C24_InstanceOverrides ==
  [][ (Running("enterInstance") /\ Head(agenda).node.protoName \in DOMAIN tables) =>
        \A o \in DOMAIN Head(agenda).node.overrides :
          IF overridable(tables[Head(agenda).node.protoName],
                         Head(agenda).node.overrides[o].name)
          THEN /\ Head(agenda).node.name \in DOMAIN tables'
               /\ \A k \in DOMAIN tables[Head(agenda).node.protoName] :
                    tables[Head(agenda).node.protoName][k].identifier
                        = Head(agenda).node.overrides[o].name
                      => tables'[Head(agenda).node.name][k].reference
                           = Head(agenda).node.overrides[o].ex.id
          ELSE /\ Head(agenda).node.id \in DOMAIN errors'
               /\ errors'[Head(agenda).node.id].code = "QNT406"
               /\ Head(agenda).node.name \in DOMAIN tables' =>
                    \A k \in DOMAIN tables[Head(agenda).node.protoName] :
                      tables[Head(agenda).node.protoName][k].identifier
                          = Head(agenda).node.overrides[o].name
                        => tables'[Head(agenda).node.name][k].reference
                             = tables[Head(agenda).node.protoName][k].reference
    ]_vars

\* C27 (as claimed): a step of enterImport or enterInstance that records an
\* error adds no definition to the current module's table and registers no
\* table.
C27_FailedImportNoChange ==
  [][ ((Running("enterImport") \/ Running("enterInstance")) /\ errors' # errors) =>
        /\ currentTable' = currentTable
        /\ tables' = tables
    ]_vars

\* the names an import or instance has copied into the module with id m
copiedInto(table, m) == { table[k] : k \in { j \in DOMAIN table : table[j].scope = m } }

\* C28: a module's table with what its imports and instances merged into it
\* is stored in tables under the module's name when the module is exited;
\* what was merged into the parent before a nested module is still in the
\* parent's current table after the nested module is exited, and what the
\* nested module imported is not.
C28_ResolverNesting ==
  [][ /\ Running("exitModuleDef") =>
           /\ Head(agenda).node.module.name \in DOMAIN tables'
           /\ tables'[Head(agenda).node.module.name] = currentTable
      /\ (Running("exitModuleDef") /\ Len(moduleStack) > 1) =>
           /\ currentModule' = moduleStack[Len(moduleStack) - 1]
           /\ currentTable' = tables[moduleStack[Len(moduleStack) - 1]]
           /\ copiedInto(currentTable', Head(agenda).node.module.id) = {}
           /\ \A k \in DOMAIN importsOf(module) :
                (/\ importsOf(module)[k].holder.name = moduleStack[Len(moduleStack) - 1]
                 /\ importsOf(module)[k].def.id < Head(agenda).node.id
                 /\ ~unresolved(importsOf(module)[k].def,
                                declaredBefore(importsOf(module), k))) =>
                  \A n \in copiedNames(importsOf(module)[k].def,
                                       declaredBefore(importsOf(module), k)) :
                    holds(currentTable', n, importsOf(module)[k].holder)
      /\ Running("enterModuleDef") =>
           (currentModule = "" \/ tables'[currentModule] = currentTable)
    ]_vars

\* module root { import A.*  module M2 { import A.* } }: after M2 the table
\* of root has the names of A for root and none of those copied for M2,
\* which are in the table stored for M2
C28_Witness ==
  /\ module.defs = << Import(1, "A", "*"), NestedModule(2, Import(Child(2, 1), "A", "*")) >>
  /\ status = "running"
  /\ Len(agenda) = 1
  /\ currentModule = RootName
  /\ Cardinality(copiedInto(currentTable, module.id)) = 3
  /\ copiedInto(currentTable, module.defs[2].module.id) = {}
  /\ Cardinality(copiedInto(tables[ModuleName(2)], module.defs[2].module.id)) = 3

\* the operator definitions of the module under inference, those of let-in
\* expressions included
opDefsOf(m) ==
  { ev.node : ev \in { x \in Range(walkModule(m)) : x.cb = "exitOpDef" } }

\* C25: once exitOpDef has been made for an operator definition whose body
\* has an effect, the definition's id and the body's id have equal entries in
\* effects, in every later state of the run.
C25_OpDefExposureStable ==
  \A d \in opDefsOf(module) :
    (d.id \notin Pending /\ d.expr.id \in DOMAIN effects) =>
      /\ d.id \in DOMAIN effects
      /\ effects[d.id] = effects[d.expr.id]

\* def f1(p) = p  val f2 = f1(x): the call has rewritten the effect exposed
\* for f1, at the definition and at its body alike
C25_Witness ==
  /\ status = "returned"
  /\ Len(Defs) = 2
  /\ Defs[1].expr = IdLambda(BodyId(1))
  /\ Defs[2].expr = CallF1(BodyId(2), "x")
  /\ effects[1] = effects[BodyId(1)]
  /\ effects[1] # Arrow(<< Quantified(paramName("p", BodyId(1))) >>,
                        Quantified(paramName("p", BodyId(1))))

\* the arguments of an application and the body of a let-in
operandsOf(n) ==
  CASE n.kind = "app" -> { n.args[i].id : i \in DOMAIN n.args }
    [] n.kind = "let" -> { n.expr.id }
    [] OTHER -> {}

\* C26: while the errors map is empty, every expression node the traversal
\* has left has a defined entry in effects; so an application about to be
\* inferred has the effects of all its arguments and a let-in about to be
\* left has the effect of its body.
C26_CompleteWhileErrorFree ==
  (DOMAIN errors = {}) =>
    /\ \A n \in Nodes :
         n.id \notin Pending => (n.id \in DOMAIN effects /\ effects[n.id] # Undefined)
    /\ (status = "running" /\ agenda # <<>>) =>
         \A i \in operandsOf(Head(agenda).node) :
           i \in DOMAIN effects /\ effects[i] # Undefined

\* same(same(p, x), p) is about to be inferred in a run without errors, and
\* both arguments have their effects
C26_Witness ==
  /\ status = "running"
  /\ DOMAIN errors = {}
  /\ agenda # <<>>
  /\ Head(agenda).cb = "exitApp"
  /\ Len(Head(agenda).node.args) = 2
  /\ Head(agenda).node.args[1].kind = "app"
  /\ \A i \in operandsOf(Head(agenda).node) : i \in DOMAIN effects

\* the number of arguments a builtin operator takes
ownArity(op) ==
  CASE op = "not"  -> 1
    [] op = "head" -> 1
    [] op = "call" -> 2
    [] op = "same" -> 2

\* the nodes of the module under inference that one callback leaves
leftBy(m, cb) ==
  { ev.node : ev \in { x \in Range(walkModule(m)) : x.cb = cb } }

\* C29: a builtin's signature is taken at the number of arguments of the use
\* site: an application of same to n arguments whose arguments have effects
\* never fails on the number of parameters, and a reference to a builtin by
\* name has as many parameters as the operator takes arguments.
C29_SignatureArity ==
  /\ \A n \in leftBy(module, "exitApp") :
       (n.opcode = "same" /\ n.id \notin Pending) =>
         (n.id \in DOMAIN errors =>
            \E i \in DOMAIN n.args : n.args[i].id \in DOMAIN errors)
  /\ \A n \in leftBy(module, "exitName") :
       (n.name \in BuiltinNames /\ n.id \notin Pending) =>
         /\ n.id \in DOMAIN effects
         /\ effects[n.id].kind = "arrow"
         /\ Len(effects[n.id].params) = ownArity(n.name)

====
